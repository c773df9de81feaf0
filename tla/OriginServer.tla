---------------------------- MODULE OriginServer ----------------------------
(***************************************************************************)
(* HTTP_Origin_Server: the files under the mount point, as the workers     *)
(* that read and write them see them.  A file's contents are identified by *)
(* how often it has been written; ftrylockfile locks a FILE that nobody    *)
(* else has, so it keeps no other worker away.                             *)
(***************************************************************************)
EXTENDS Integers, Sequences, SequencesExt

CONSTANTS
    Paths,      \* the names in requests
    Kind,       \* path -> what stat says it is
    FileSize,   \* size of a file at the start
    BodySize,   \* size of what a PUT or POST writes
    MaxClock    \* bound on the clock

Kinds == {"none", "reg", "dir", "sock", "other"}

ASSUME KindAssumption == Kind \in [Paths -> Kinds]
ASSUME FileAssumption == FileSize \in Nat /\ BodySize \in Nat /\ MaxClock \in Nat

VARIABLES
    clock,      \* time(NULL)
    size,       \* path -> st_size
    writes      \* path -> when its contents changed, since the start

filevars == <<size, writes>>

\* Which contents the file has now, and when it got them: st_mtime.
Contents(p) == Len(writes[p])
Modified(p) == IF writes[p] = << >> THEN 0 ELSE Last(writes[p])

OriginInit ==
    /\ clock = 0
    /\ size = [p \in Paths |-> FileSize]
    /\ writes = [p \in Paths |-> << >>]

OriginTypeOK ==
    /\ clock \in 0 .. MaxClock
    /\ size \in [Paths -> Nat]
    /\ writes \in [Paths -> Seq(0 .. MaxClock)]

Tick ==
    /\ clock < MaxClock
    /\ clock' = clock + 1

SetFile(p, n) ==
    /\ size' = [size EXCEPT ![p] = n]
    /\ writes' = [writes EXCEPT ![p] = Append(@, clock)]

\* putorpost: fopen with mode "w" empties the file at once, with "a" it does not.
Open(p, mode) ==
    IF mode = "w" THEN SetFile(p, 0) ELSE UNCHANGED filevars

\* putorpost: the fwrite loop and fclose, from the start of the file or at its end
Write(p, mode) ==
    SetFile(p, IF mode = "a" THEN size[p] + BodySize ELSE Max({size[p], BodySize}))

Readable_PastEnd(p, n) == size[p] > n

\* request: while (toread) ends when all the bytes that stat promised are there;
\* fread at the end of a file that has become shorter gives 0 for ever.
Readable(p, n) == size[p] >= n

\* bool validate(path, tocheck)
Validated(p, last_modified) == Kind[p] # "none" /\ Modified(p) <= last_modified
=============================================================================
