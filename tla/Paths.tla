------------------------------- MODULE Paths -------------------------------
(***************************************************************************)
(* Paths of a script and the sandboxes they are in                         *)
(* (libruntime/path.c, sandbox.c, safe.c).                                 *)
(*                                                                         *)
(* A path is the sequence of its characters; names are what is between     *)
(* slashes.  A path that is refused is NoPath.                             *)
(***************************************************************************)
EXTENDS Integers, Sequences, FiniteSets, SequencesExt

CONSTANTS Char,          \* the characters of paths
          Sandboxes      \* [name, path, access], the one added last in front

Text == Seq(Char)
ASSUME CharAssumption == {"/", ".", ":"} \subseteq Char
ASSUME SandboxesAssumption ==
  Sandboxes \in Seq([name : Text, path : Text, access : {"NONE", "RO", "RW"}])

NoPath == <<>>

Behind(t, k) == SubSeq(t, k + 1, Len(t))

\* Where the last slash is, 0 if there is none.
LastSlash(t) == CHOOSE k \in 0..Len(t) : /\ k > 0 => t[k] = "/"
                                         /\ \A i \in (k + 1)..Len(t) : t[i] # "/"

\* What is between the slashes, one character after the other.
EndName(n)    == IF n.last = <<>> THEN n.names ELSE Append(n.names, n.last)
AddChar(n, c) == IF c = "/" THEN [names |-> EndName(n), last |-> <<>>]
                 ELSE [names |-> n.names, last |-> Append(n.last, c)]
Scanned(t)    == LET n[k \in 0..Len(t)] == IF k = 0 THEN [names |-> <<>>, last |-> <<>>] ELSE AddChar(n[k - 1], t[k])
                 IN n[Len(t)]
Names(t)      == EndName(Scanned(t))

\* remove_trail_slash.
RemoveTrailSlash(t) == IF Len(t) > 1 /\ t[Len(t)] = "/" THEN Front(t) ELSE t
-----------------------------------------------------------------------------
\* path_absolute: the names one after the other are put behind what is there,
\* which may end in a slash after a name was taken back.
BackUp(d)      == SubSeq(d, 1, LastSlash(Front(d)))
EndsInSlash(d) == d[Len(d)] = "/"
AddName(d, name) ==
  CASE name = <<".">>      -> d
    [] name = <<".", ".">> -> IF Len(d) > 1 THEN BackUp(d) ELSE d
    [] OTHER               -> (IF EndsInSlash(d) THEN d ELSE Append(d, "/")) \o name

Absolute(t) == t # <<>> /\ t[1] = "/"

\* What getcwd gives, and path_absolute.
Normal(d) == /\ d \in Text /\ Absolute(d)
             /\ EndsInSlash(d) => Len(d) = 1
             /\ \A i \in 1..(Len(d) - 1) : ~(d[i] = "/" /\ d[i + 1] = "/")
             /\ \A i \in DOMAIN Names(d) : Names(d)[i] \notin {<<".">>, <<".", ".">>}
path_absolute(cwd, t) ==
  RemoveTrailSlash(FoldLeft(AddName, IF Absolute(t) THEN <<"/">> ELSE cwd, Names(t)))
-----------------------------------------------------------------------------
\* The sandbox a path is in: what is in front of the first :/ of it.
Separators(t) == {i \in 1..(Len(t) - 1) : t[i] = ":" /\ t[i + 1] = "/"}
Separator(t)  == CHOOSE i \in Separators(t) : \A j \in Separators(t) : i <= j
HasSandbox(t) == Separators(t) # {} /\ Separator(t) > 1
SandboxOf(t)  == SubSeq(t, 1, Separator(t) - 1)
Inside(t)     == Behind(t, Separator(t) + 1)

\* sandbox_get, sandbox_get_access: the first of the name.
FirstOf(name)   == CHOOSE i \in DOMAIN Sandboxes : /\ Sandboxes[i].name = name
                                                   /\ \A j \in DOMAIN Sandboxes : Sandboxes[j].name = name => i <= j
Known(t)        == HasSandbox(t) /\ \E i \in DOMAIN Sandboxes : Sandboxes[i].name = SandboxOf(t)
sandbox_get(t)  == RemoveTrailSlash(Sandboxes[FirstOf(SandboxOf(t))].path)
sandbox_get_path_access(t) == IF Known(t) THEN Sandboxes[FirstOf(SandboxOf(t))].access ELSE "NONE"

sandbox_resolve_path(t) == IF Known(t) THEN RemoveTrailSlash(sandbox_get(t) \o <<"/">> \o Inside(t)) ELSE NoPath

\* What is in the sandbox begins with the path of the sandbox.
Unchecked(cwd, t) == IF Known(t) THEN path_absolute(cwd, sandbox_resolve_path(t)) ELSE NoPath \* mutant of sandbox_validate_path
sandbox_validate_path(cwd, t) ==
  LET real == path_absolute(cwd, sandbox_resolve_path(t))
  IN IF Known(t) /\ IsPrefix(path_absolute(cwd, sandbox_get(t)), real) THEN real ELSE NoPath
-----------------------------------------------------------------------------
\* Outside of safe mode a path without a sandbox is one of the system.
path_validate(safe, cwd, t) ==
  CASE safe          -> sandbox_validate_path(cwd, t)
    [] ~safe /\ HasSandbox(t) -> IF Known(t) THEN path_absolute(cwd, sandbox_resolve_path(t)) ELSE NoPath
    [] OTHER         -> path_absolute(cwd, t)

path_access(safe, t) == IF safe \/ HasSandbox(t) THEN sandbox_get_path_access(t) ELSE "RW"

\* dirname and basename of the C library.
Stripped(t)  == SubSeq(t, 1, CHOOSE k \in 0..Len(t) : /\ \A i \in (k + 1)..Len(t) : t[i] = "/"
                                                      /\ k > 0 => t[k] # "/")
Parent(t)    == Stripped(SubSeq(Stripped(t), 1, LastSlash(Stripped(t))))
dirname(t)   == IF Parent(t) # <<>> THEN Parent(t) ELSE IF Absolute(t) THEN <<"/">> ELSE <<".">>
basename(t)  == IF Stripped(t) # <<>> THEN Behind(Stripped(t), LastSlash(Stripped(t)))
                ELSE IF t = <<>> THEN <<".">> ELSE <<"/">>

\* The parent of what is directly in a sandbox is the sandbox.
path_parent(t) == LET d == dirname(t) IN IF Len(d) > 1 /\ d[Len(d)] = ":" THEN Append(d, "/") ELSE d

\* For what may not exist yet: only the directory it is in is validated.
path_validate_parent(safe, cwd, t) ==
  LET d == path_validate(safe, cwd, path_parent(t))
  IN IF d = NoPath THEN NoPath ELSE d \o <<"/">> \o basename(t)
-----------------------------------------------------------------------------
\* The place in the file system that the system finds for a path it is given,
\* and the one a path of the script means: a way down from the root.
Walk(place, name) ==
  CASE name = <<".">>      -> place
    [] name = <<".", ".">> -> IF place = <<>> THEN <<>> ELSE Front(place)
    [] OTHER               -> Append(place, name)
WalkFrom(place, names) == FoldLeft(Walk, place, names)
PlaceOf(t)             == WalkFrom(<<>>, Names(t))
PlaceFrom(cwd, t)      == WalkFrom(IF Absolute(t) THEN <<>> ELSE PlaceOf(cwd), Names(t))

SandboxPath(t)       == Sandboxes[FirstOf(SandboxOf(t))].path
SandboxPlace(cwd, t) == PlaceFrom(cwd, SandboxPath(t))
Meaning(cwd, t)      == PlaceFrom(cwd, IF Known(t) THEN SandboxPath(t) \o <<"/">> \o Inside(t) ELSE t)
=============================================================================
