------------------------------- MODULE Files -------------------------------
(***************************************************************************)
(* The file module (modules/file/intend_file.c): files as resources, and   *)
(* the functions on paths, inside and outside of safe mode.                *)
(*                                                                         *)
(* The file system is an environment that lets every call that reaches it  *)
(* succeed or fail; what is kept is which places a call has read and       *)
(* changed, and which stream is open where.  Values that are returned,     *)
(* except resources, are left out.                                         *)
(***************************************************************************)
EXTENDS Resources, Paths

CONSTANTS Paths_,       \* the path arguments of the script
          Modes,        \* the modes of open
          Stream,       \* the FILE structures of the C library, as numbers
          Standard      \* the stream that is open from the start

ASSUME PathsAssumption == Paths_ \subseteq Text
ASSUME StreamAssumption == Stream \subseteq Nat \ {0} /\ Standard \in Stream

VARIABLES file,         \* the stream of each resource, 0 when there is none
          stream,       \* the streams
          cwd, safe,    \* current directory, safe mode
          seen,         \* the places the last call has read
          changed,      \* those it has changed
          taken,        \* and those it has taken a file away from
          misuse,       \* what is no stream, or not any more, used as one
          lost          \* the script has done what the module does not protect

fileVars == <<file, stream, cwd, safe, seen, changed, taken, misuse, lost>>

\* low: the stream has the descriptor of a standard one, which the system gives
\* to the next file that is opened after the standard one was closed.
Closed == [open |-> FALSE, used |-> TRUE, place |-> <<>>, mode |-> "r", low |-> FALSE]
Fresh  == [open |-> FALSE, used |-> FALSE, place |-> <<>>, mode |-> "r", low |-> FALSE]
LowIsFree == \A s \in Stream : ~(stream[s].open /\ stream[s].low)
OpenAt(p, mode, low) == [open |-> TRUE, used |-> TRUE, place |-> p, mode |-> mode, low |-> low]
Writes(mode) == mode # "r"
Reads(mode)  == mode # "w"

FreeStreams == {s \in Stream : ~stream[s].used /\ \A q \in Stream : stream[q].used \/ s <= q}
Sees(places, changes) == seen' = places /\ changed' = changes /\ taken' = {}
SeesNone    == Sees({}, {})
SameHandles == UNCHANGED <<held, count, release, file, stream, misuse, lost>>
KeepPaths   == UNCHANGED <<cwd, safe>>

FileCalled(args) == /\ phase = "arguments"
                    /\ \A a \in Argument : held[a] # Plain <=> a \in args
                    /\ phase' = "returned"
-----------------------------------------------------------------------------
\* What the functions on paths ask before they go to the system: the path is not
\* empty, its sandbox may be written, and it is a place.
Existing(t)  == path_validate(safe, cwd, t)
NewIn(t)     == path_validate_parent(safe, cwd, t)
AnyAccess(t) == TRUE                                      \* mutant of MayWrite
MayWrite(t)  == path_access(safe, t) = "RW"

\* The system does what it is asked for or not.
Asks(test, p, Does(_)) ==
  /\ FileCalled({}) /\ SameHandles /\ KeepPaths
  /\ \/ test /\ p # NoPath /\ Does(PlaceOf(p))
     \/ SeesNone
Looks(place)   == Sees({place}, {})
Changed(place) == Sees({}, {place})

\* file_stat and file_scandir_helper return what they never set when the path
\* is empty.
NeverSet(t) == /\ t = <<>> /\ FileCalled({}) /\ KeepPaths /\ SeesNone
               /\ misuse' = TRUE /\ lost' = TRUE
               /\ UNCHANGED <<held, count, release, file, stream>>
stat    == \E t \in Paths_ : (t # <<>> /\ Asks(TRUE, Existing(t), Looks)) \/ NeverSet(t)
scandir == \E t \in Paths_ : (t # <<>> /\ Asks(TRUE, Existing(t), Looks)) \/ NeverSet(t)

\* fileread, filereadarray.
fileread == \E t \in Paths_ : Asks(t # <<>>, Existing(t), Looks)

\* access and eaccess ask for more than they need.
access == \E t \in Paths_ : Asks(t # <<>> /\ MayWrite(t), Existing(t), Looks)

mkdir  == \E t \in Paths_ : Asks(t # <<>> /\ MayWrite(t), NewIn(t), Changed)
rmdir  == \E t \in Paths_ : Asks(t # <<>> /\ MayWrite(t), Existing(t), Changed)
unlink == \E t \in Paths_ : Asks(t # <<>> /\ MayWrite(t), Existing(t), Changed)    \* and remove
chmod  == \E t \in Paths_ : Asks(t # <<>> /\ MayWrite(t), Existing(t), Changed)    \* and chown

\* filewrite, which removes what it could not write to the end, and
\* filewritearray by way of it.
filewrite == \E t \in Paths_ : Asks(t # <<>> /\ MayWrite(t), NewIn(t), Changed)

\* link and symlink; copy, which sets the mode of the copy also when it was not
\* written; and rename.  The access is asked for the second path only, although
\* rename takes the file away from the first.
AsksBoth(t, d, Does(_, _)) ==
  /\ FileCalled({}) /\ SameHandles /\ KeepPaths
  /\ \/ /\ t # <<>> /\ d # <<>> /\ MayWrite(d)
        /\ LET from == Existing(t)  to == NewIn(d)
           IN to # NoPath /\ from # NoPath /\ Does(PlaceOf(from), PlaceOf(to))
     \/ SeesNone
Copies(from, to) == \E C \in {{}, {to}} : Sees({from}, C)
Links(from, to)  == Sees({}, {to})
Moves(from, to)  == seen' = {} /\ changed' = {to} /\ taken' = {from}

link   == \E t, d \in Paths_ : AsksBoth(t, d, Links)
copy   == \E t, d \in Paths_ : AsksBoth(t, d, Copies)
rename == \E t, d \in Paths_ : AsksBoth(t, d, Moves)

\* file_chdir; safe mode has no current directory.
chdir ==
  /\ FileCalled({}) /\ SameHandles /\ SeesNone /\ UNCHANGED safe
  /\ \/ \E t \in Paths_ : ~safe /\ t # <<>> /\ ~HasSandbox(t) /\ cwd' = path_absolute(cwd, t)
     \/ UNCHANGED cwd
-----------------------------------------------------------------------------
\* Files as resources.
is_file(a)  == held[a] # Plain /\ release[held[a]] = "file"
FileOf(a)   == IF is_file(a) THEN file[held[a]] ELSE 0

Opens(t, mode)     == (Writes(mode) => MayWrite(t)) /\ NewIn(t) # NoPath
PlaceNew(t)        == PlaceOf(NewIn(t))
PlaceSeen(t, mode) == IF Writes(mode) THEN Sees({}, {PlaceNew(t)}) ELSE Sees({PlaceNew(t)}, {})

file_open ==
  \E t \in Paths_, mode \in Modes :
    /\ FileCalled({}) /\ KeepPaths /\ UNCHANGED <<misuse, lost>>
    /\ \/ /\ Opens(t, mode) /\ PlaceSeen(t, mode)
          /\ MakeResource("file")
          /\ \E s \in FreeStreams :
               /\ file' = [r \in Rid |-> IF r = held'[Result] THEN s ELSE file[r]]
               /\ stream' = [stream EXCEPT ![s] = OpenAt(PlaceNew(t), mode, LowIsFree)]
       \/ SeesNone /\ UNCHANGED <<held, count, release, file, stream>>

\* What is given to freopen and fileno without a test: a file that was closed,
\* or the data of another module.
Broken(a) == FileOf(a) = 0 \/ ~stream[FileOf(a)].open
Misused   == misuse' = TRUE /\ lost' = TRUE /\ SeesNone /\ UNCHANGED stream
Refused   == SeesNone /\ UNCHANGED <<stream, misuse, lost>>

\* freopen closes the stream it is given also when it fails, and the resource
\* is not told.  The standard streams stay as they are in safe mode.
file_reopen ==
  \E a \in Argument, t \in Paths_, mode \in Modes :
    /\ FileCalled({a}) /\ KeepPaths /\ UNCHANGED <<held, count, release, file>>
    /\ IF safe /\ Broken(a) THEN Misused                              \* fileno
       ELSE IF (safe /\ stream[FileOf(a)].low) \/ ~Opens(t, mode) THEN Refused
       ELSE IF Broken(a) THEN Misused                                  \* freopen
       ELSE /\ UNCHANGED misuse
            /\ \/ /\ stream' = [stream EXCEPT ![FileOf(a)] = OpenAt(PlaceNew(t), mode, @.low)]
                  /\ PlaceSeen(t, mode) /\ UNCHANGED lost
               \/ /\ stream' = [stream EXCEPT ![FileOf(a)] = Closed]
                  /\ lost' = TRUE /\ SeesNone

\* The functions of a stream are refused for what is no file or was closed by
\* close, but not for what reopen has closed.
Use(Place(_), Change(_)) ==
  \E a \in Argument :
    /\ FileCalled({a}) /\ KeepPaths /\ UNCHANGED <<held, count, release, file, stream, lost>>
    /\ IF Broken(a) THEN misuse' = (misuse \/ FileOf(a) # 0) /\ SeesNone
       ELSE UNCHANGED misuse /\ Sees(Place(stream[FileOf(a)]), Change(stream[FileOf(a)]))
Nowhere(s) == {}
ToRead(s)  == IF Reads(s.mode) THEN {s.place} ELSE {}
ToWrite(s) == IF Writes(s.mode) THEN {s.place} ELSE {}

\* What is read is left out, so that file_read takes its length from the file
\* resource (line 810), and passes it on where a pointer is wanted (line 821).
ReadFile  == Use(ToRead, Nowhere)       \* file_read, file_getc, file_gets
WriteFile == Use(Nowhere, ToWrite)      \* file_write
UseFile   == Use(Nowhere, Nowhere)      \* file_seek, file_tell, file_setbuf, file_flush,
                                        \* file_is_eof, file_is_error, file_clearerr

\* fclose, by close or by the last value that goes.
Shut(s) == IF s = 0 THEN UNCHANGED <<stream, misuse>>
           ELSE /\ stream' = [stream EXCEPT ![s] = Closed]
                /\ misuse' = (misuse \/ ~stream[s].open)

\* All copies of the value see that the file is closed.
StaysInFile(r)    == UNCHANGED file                       \* mutant of TakenFromFile
TakenFromFile(r)  == file' = [file EXCEPT ![r] = 0]
file_close ==
  \E a \in Argument :
    /\ FileCalled({a}) /\ KeepPaths /\ SeesNone /\ UNCHANGED <<held, count, release, lost>>
    /\ IF FileOf(a) = 0 THEN UNCHANGED <<file, stream, misuse>>
       ELSE TakenFromFile(held[a]) /\ Shut(FileOf(a))

\* Both ends are handed out in place of the arguments, which hold nothing that
\* has to be released.
file_pipe ==
  /\ phase = "arguments" /\ \A a \in Argument : held[a] = Plain
  /\ KeepPaths /\ SeesNone /\ UNCHANGED <<misuse, lost>>
  /\ \/ \E s, q \in Stream :
          /\ s < q /\ {o \in Stream : ~stream[o].used /\ o <= q} = {s, q}
          /\ MakeArguments("file")
          /\ file' = [r \in Rid |-> IF r = held'[First] THEN s ELSE IF r = held'[Second] THEN q ELSE file[r]]
          /\ stream' = [stream EXCEPT ![s] = OpenAt(<<>>, "r", LowIsFree), ![q] = OpenAt(<<>>, "w", FALSE)]
          /\ phase' = "first"
     \/ UNCHANGED <<held, count, release, file, stream>> /\ phase' = "returned"

PathCall == \/ stat \/ scandir \/ fileread \/ access \/ chdir
            \/ mkdir \/ rmdir \/ unlink \/ chmod \/ filewrite \/ link \/ copy \/ rename
FileCall == \/ PathCall \/ file_open \/ file_reopen \/ file_close \/ file_pipe
            \/ ReadFile \/ WriteFile \/ UseFile

\* file_free as the release function.
FileRelease(R) ==
  IF \E r \in R : release[r] = "file"
  THEN Shut(file[CHOOSE r \in R : TRUE]) /\ file' = [file EXCEPT ![CHOOSE r \in R : TRUE] = 0]
  ELSE UNCHANGED <<file, stream, misuse>>
-----------------------------------------------------------------------------
\* A stream is closed once, by close or by the last of the values that share
\* it, and nothing is done with it after that, as long as reopen is given an
\* open file and does not fail, and no empty path is asked about.
StreamsOnce == misuse => lost

\* Every place a call reads or changes is the one that a path of the script
\* means, walked name by name from its root; what is changed has a name that
\* may be written, and in safe mode the place is in the sandbox that is named.
\* What rename takes away is only in the sandbox that is named, and may be one
\* that is read.  A file that is already open keeps its place.
\*
\* The text of a path is looked at and not its names, with three effects: the
\* path of a sandbox itself has a parent that is in no sandbox, so that it is one
\* of the system (SandboxAlone); a path that ends in .. reaches one name further
\* up than its parent, which is validated (EndsUp); and what is beside a sandbox,
\* with a name that begins like that of the sandbox, passes for it (Beside).
Granted(t)      == IF Known(t) THEN sandbox_get_path_access(t) = "RW" ELSE ~safe /\ ~HasSandbox(t)
SandboxAlone(t) == Known(t) /\ \A i \in DOMAIN Inside(t) : Inside(t)[i] = "/"
EndsUp(t)       == Names(t) # <<>> /\ Last(Names(t)) = <<".", ".">>
Beside(S, p)    == /\ S # <<>> /\ Len(S) <= Len(p) /\ IsPrefix(Front(S), p)
                   /\ IsStrictPrefix(Last(S), p[Len(S)])
Confined(t, p)  == /\ Known(t)
                   /\ LET S == SandboxPlace(cwd, t)
                      IN IsPrefix(S, p) \/ Beside(S, p) \/ (EndsUp(t) /\ IsPrefix(Front(S), p))
Means(p, writing) ==
  \E t \in Paths_ : /\ writing => Granted(t)
                    /\ p = Meaning(cwd, t) \/ (SandboxAlone(t) /\ p = PlaceFrom(cwd, t))
                    /\ safe => Confined(t, p)
Opened(p, writing) ==
  \E s \in Stream : /\ stream[s].open /\ stream[s].place = p
                    /\ IF writing THEN Writes(stream[s].mode) ELSE Reads(stream[s].mode)
NamesMean ==
  [][/\ \A p \in seen'    : Opened(p, FALSE) \/ Means(p, FALSE)
     /\ \A p \in changed' : Opened(p, TRUE) \/ Means(p, TRUE)
     /\ \A p \in taken'   : Means(p, FALSE)]_<<seen, changed, taken, stream>>
=============================================================================
