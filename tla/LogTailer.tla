----------------------------- MODULE LogTailer -----------------------------
(***************************************************************************)
(* The tail-logs command (cmd/internal/tlogs.go), which runs in a          *)
(* container of its own beside the processes of an instance group.  It     *)
(* lists the directories, starts a goroutine that walks them for files and *)
(* one that handles the events of the watcher, adds a watch for each       *)
(* listed directory and only then receives the names of the files, on an   *)
(* unbuffered channel.                                                     *)
(*                                                                         *)
(* A walk reads the names in a directory when it enters it and visits them *)
(* one by one; it may visit a directory before or after a file beside it,  *)
(* as their names say, so here it goes on in any order.                    *)
(***************************************************************************)
EXTENDS Naturals, FiniteSets, Sequences, SequencesExt

CONSTANTS
    Root,     \* the directory of LOGS_DIR
    LogDirs,  \* the directories below it
    LogFiles, \* the files with a name the regular expression matches
    ParentOf  \* the directory a directory or a file is in

VARIABLES
    disk,  \* the directories and files there are
    tail   \* the command: its three goroutines (owed is history: the files it
           \* could know of)

Everything == {Root} \cup LogDirs \cup LogFiles
Off == [phase |-> "off", list |-> {}, listed |-> {}, watched |-> {}, walk |-> {},
        found |-> {}, events |-> <<>>, tailed |-> {}, owed |-> {}]

EntriesOf(d) == {x \in disk : x # Root /\ ParentOf[x] = d}

\* What the watcher reports when x appears; nothing unless its directory is watched.
Events(x) == IF ParentOf[x] \in tail.watched THEN Append(tail.events, x) ELSE tail.events

Appears(x) ==
    /\ x \notin disk /\ ParentOf[x] \in disk
    /\ disk' = disk \cup {x}
    /\ tail' = [tail EXCEPT !.events = Events(x),
                            !.owed = @ \cup (ToSet(Events(x)) \cap LogFiles)]

-----------------------------------------------------------------------------
\* The command starts: the directory has to be there.
TailLogsFromDir ==
    /\ tail.phase = "off" /\ Root \in disk
    /\ tail' = [Off EXCEPT !.phase = "listing", !.list = {Root}, !.owed = disk \cap LogFiles]
    /\ UNCHANGED disk

\* getSubDirs enters one more directory.
getSubDirs ==
    /\ tail.phase = "listing"
    /\ \E d \in tail.list :
          tail' = [tail EXCEPT !.list = (@ \ {d}) \cup (EntriesOf(d) \cap LogDirs),
                               !.listed = @ \cup {d}]
    /\ UNCHANGED disk

\* Faulty variant: nothing looks for the files that are there already.
StartWithoutWalk ==
    /\ tail.phase = "listing" /\ tail.list = {}
    /\ tail' = [tail EXCEPT !.phase = "watching"]
    /\ UNCHANGED disk

\* The list is complete: both goroutines are started.
StartGoroutines ==
    /\ tail.phase = "listing" /\ tail.list = {}
    /\ tail' = [tail EXCEPT !.phase = "watching", !.walk = {Root}]
    /\ UNCHANGED disk

\* A watch for one more of the listed directories.
AddWatch ==
    /\ tail.phase = "watching"
    /\ \E d \in tail.listed \ tail.watched : tail' = [tail EXCEPT !.watched = @ \cup {d}]
    /\ UNCHANGED disk

\* LogTailors begins to receive.
StartTailing ==
    /\ tail.phase = "watching" /\ tail.listed \subseteq tail.watched
    /\ tail' = [tail EXCEPT !.phase = "tailing"]
    /\ UNCHANGED disk

\* Faulty variant: directories are taken for files.
WalkDirs ==
    /\ \E d \in tail.walk :
          tail' = [tail EXCEPT !.walk = (@ \ {d}) \cup (EntriesOf(d) \cap LogDirs),
                               !.found = @ \cup EntriesOf(d)]
    /\ UNCHANGED disk

\* The walk of addExistingFiles enters a directory ...
WalkDir ==
    /\ \E d \in tail.walk :
          tail' = [tail EXCEPT !.walk = (@ \ {d}) \cup (EntriesOf(d) \cap LogDirs),
                               !.found = @ \cup (EntriesOf(d) \cap LogFiles)]
    /\ UNCHANGED disk

\* LogTailors tails a file it receives; t.Lines begins with its first line.
LogTailors(f) == [tail EXCEPT !.tailed = @ \cup {f}]

\* ... and sends a file it found, which waits for the receiver.
addExistingFiles ==
    /\ tail.phase = "tailing"
    /\ \E f \in tail.found : tail' = [LogTailors(f) EXCEPT !.found = @ \ {f}]
    /\ UNCHANGED disk

\* The next event: a new directory is watched from now on, a new file is sent.
HandleEvent ==
    /\ tail.events # <<>>
    /\ LET x == Head(tail.events)
       IN IF x \in LogDirs
          THEN tail' = [tail EXCEPT !.watched = @ \cup {x}, !.events = Tail(@)]
          ELSE tail.phase = "tailing" /\ tail' = [LogTailors(x) EXCEPT !.events = Tail(@)]
    /\ UNCHANGED disk

TailStep ==
    \/ TailLogsFromDir \/ getSubDirs \/ StartGoroutines \/ AddWatch \/ StartTailing
    \/ WalkDir \/ addExistingFiles \/ HandleEvent

TailTypeOK ==
    /\ disk \subseteq Everything
    /\ tail.phase \in {"off", "listing", "watching", "tailing"}
    /\ tail.list \cup tail.listed \cup tail.watched \cup tail.walk \subseteq {Root} \cup LogDirs
    /\ tail.found \cup tail.tailed \cup tail.owed \subseteq LogFiles
    /\ \A i \in DOMAIN tail.events : tail.events[i] \in LogDirs \cup LogFiles
=============================================================================
