------------------------------- MODULE Listing -------------------------------
(***************************************************************************)
(* The collectors that list the directories of a server and remember one   *)
(* date, the journal's: files that are not dated after it are not listed   *)
(* again.  rawdata/collector/ftpcollector.py, rosftpcollector.py, and      *)
(* webdavcollector.py with webdav/webdavclient.py.                         *)
(*                                                                         *)
(* Journal tells why there is one collector inside.  A file is dated when  *)
(* it appears, in a unit of the dates of the server (a minute for FTP), so *)
(* files share dates.  What a file holds is one configuration's.           *)
(***************************************************************************)
EXTENDS Integers

CONSTANTS
    File, Directory,
    Parent,        \* of each directory: the one it is under, or None
    Kind,          \* a subset of "ftp", "rosftp", "webdav"
    Bad,           \* sets of files whose extraction raises
    None,
    MaxTime,       \* bound: the clock
    MaxFaults      \* bound: errors, signals and deaths

ASSUME ListingAssumption ==
    /\ Parent \in [Directory -> Directory \cup {None}] /\ None \notin Directory \cup File
    /\ Kind \subseteq {"ftp", "rosftp", "webdav"} /\ Bad \subseteq SUBSET File
    /\ MaxTime \in Nat /\ MaxFaults \in Nat

VARIABLES
    kind, bad,
    clock,
    date,      \* of each file: its modification date, 0 before it appears
    dir,       \* ... its directory
    touched,   \* of each directory: its own modification date
    stored,    \* last_date of the journal, in the database
    pc,
    since,     \* last_date when the pass began
    unlisted,  \* directories it still lists
    todo,      \* files it listed and has not passed
    current,   \* the one in hand
    last,      \* the last_date the read-only SFTP and WebDAV collectors keep for later
    stopping,
    done,      \* history: files whose documents are indexed
    failed,    \* ... whose ingestion raised, or was cut short by a signal
    late,      \* ... that appeared after the pass had listed what is beside them
    cut,       \* ... that a pass had listed and left
    unseen,    \* ... below a directory FTP left out of its last list of them
    faults

server == <<kind, bad, clock, date, dir, touched>>
pass == <<since, unlisted, todo, current, last>>
history == <<done, failed, late, cut, unseen>>
vars == <<server, stored, pc, pass, stopping, history, faults>>

Later(a, b) == IF a < b THEN b ELSE a
Present == {f \in File : date[f] > 0}
Twin(f) == \E g \in Present \ {f} : date[g] = date[f]

\* The directories above d, itself excepted: the least set with its parent, and theirs.
HasParents(S) == \A a \in S : Parent[a] \in S \cup {None}
Above(d) ==
    {a \in Directory : \A S \in SUBSET Directory :
        Parent[d] \in S \cup {None} /\ HasParents(S) => a \in S}

\* Directories make trees.
ASSUME TreeAssumption ==
    \A d \in Directory : Parent[d] = None \/ \E a \in Above(d) : Parent[a] = None

Init ==
    /\ kind \in Kind /\ bad \in Bad /\ clock = 1
    /\ date = [f \in File |-> 0] /\ dir \in [File -> Directory]
    /\ touched = [d \in Directory |-> 0] /\ stored = 0
    /\ pc = "idle" /\ since = 0 /\ unlisted = {} /\ todo = {} /\ current = None
    /\ last = 0 /\ stopping = FALSE
    /\ done = {} /\ failed = {} /\ late = {} /\ cut = {} /\ unseen = {}
    /\ faults = MaxFaults

Fault == faults > 0 /\ faults' = faults - 1

----------------------------------------------------------------------------
(* The server.                                                              *)

Tried == done \cup failed
ToBeListed(d) == d \in unlisted \/ (kind # "rosftp" /\ Above(d) \cap unlisted # {})

Appear(f) ==
    /\ date[f] = 0
    /\ date' = [date EXCEPT ![f] = clock] /\ touched' = [touched EXCEPT ![dir[f]] = clock]
    /\ late' = IF \/ pc = "list" /\ ~ToBeListed(dir[f])
                  \/ \E g \in Tried \cup todo \cup cut : date[g] = clock
               THEN late \cup {f} ELSE late
    /\ UNCHANGED <<kind, bad, clock, dir, stored, pc, pass, stopping, done, failed, cut, unseen,
                   faults>>

Advance ==
    /\ clock < MaxTime /\ clock' = clock + 1
    /\ UNCHANGED <<kind, bad, date, dir, touched, stored, pc, pass, stopping, history, faults>>

----------------------------------------------------------------------------
(* The list of what is newer.                                               *)

\* Read-only SFTP lists the configured directories, the two others recurse.
Configured == IF kind = "rosftp" THEN Directory ELSE {d \in Directory : Parent[d] = None}
Begin ==
    /\ pc = "idle" /\ ~stopping
    /\ since' = stored /\ unlisted' = Configured /\ pc' = "list"
    /\ UNCHANGED <<server, stored, todo, current, last, stopping, history, faults>>

\* FTP applies the date to directories too.  Mutant: the other way round.
RecursesOlder(d) == kind = "webdav" \/ (kind = "ftp" /\ touched[d] < since)
Recurses(d) == kind = "webdav" \/ (kind = "ftp" /\ touched[d] > since)

Interesting(d) == {f \in Present : dir[f] = d /\ date[f] > since}
LeftOut(d) ==
    {f \in Present : kind = "ftp" /\ date[f] > since
                     /\ \E s \in Above(dir[f]) : Parent[s] = d /\ ~Recurses(s)}

\* WebDAV does not look for a stop while it lists.
List(d) ==
    /\ pc = "list" /\ d \in unlisted /\ (stopping => kind = "webdav")
    /\ todo' = todo \cup Interesting(d)
    /\ unlisted' = (unlisted \ {d}) \cup {s \in Directory : Parent[s] = d /\ Recurses(s)}
    /\ pc' = IF unlisted' = {} THEN "files" ELSE "list"
    /\ unseen' = (unseen \cup LeftOut(d)) \ todo'
    /\ UNCHANGED <<server, stored, since, current, last, stopping, done, failed, late, cut, faults>>

StopListing ==
    /\ pc = "list" /\ stopping /\ kind # "webdav"
    /\ unlisted' = {} /\ pc' = "files"
    /\ UNCHANGED <<server, stored, since, todo, current, last, stopping, history, faults>>

----------------------------------------------------------------------------
(* The files, by date unless WebDAV.                                        *)

IsNext(f) == kind = "webdav" \/ \A g \in todo : date[f] <= date[g]

Take(f) ==
    /\ pc = "files" /\ ~stopping /\ f \in todo /\ IsNext(f)
    /\ current' = f /\ pc' = "extract"
    /\ UNCHANGED <<server, stored, since, unlisted, todo, last, stopping, history, faults>>

\* What the extraction raises is logged: WebDAV then leaves the date out, the others do
\* not.  A signal cuts the extraction short without an error.
Extract ==
    LET f == current IN
    /\ pc = "extract"
    /\ \/ /\ f \notin bad /\ done' = done \cup {f} /\ pc' = "raise"
          /\ UNCHANGED failed
       \/ /\ f \in bad \/ stopping
          /\ failed' = failed \cup {f}
          /\ pc' = IF kind = "webdav" /\ f \in bad THEN "skip" ELSE "raise"
          /\ UNCHANGED done
    /\ UNCHANGED <<server, stored, pass, stopping, late, cut, unseen, faults>>

\* Read-only SFTP stores a date when it meets a later one.
StoresAtOnce(d) == Later(stored, d)
StoresPrevious(d) == IF last # 0 /\ last < d THEN Later(stored, last) ELSE stored
Dates(d) ==
    CASE kind = "ftp"    -> [stored |-> Later(stored, d), last |-> last]
      [] kind = "rosftp" -> [stored |-> StoresPrevious(d), last |-> Later(last, d)]
      [] kind = "webdav" -> [stored |-> stored, last |-> Later(last, d)]

\* The date of the file, and the tick that saves the journal.
Raise ==
    LET dates == Dates(date[current]) IN
    /\ pc = "raise"
    /\ stored' = dates.stored /\ last' = dates.last
    /\ todo' = todo \ {current} /\ current' = None /\ pc' = "files"
    /\ UNCHANGED <<server, since, unlisted, stopping, history, faults>>

Skip ==
    /\ pc = "skip"
    /\ todo' = todo \ {current} /\ current' = None /\ pc' = "files"
    /\ UNCHANGED <<server, stored, since, unlisted, last, stopping, history, faults>>

----------------------------------------------------------------------------
(* The end of a pass.                                                       *)

\* What a pass leaves, by an end that may leave its date behind it.
Leave(ends) ==
    /\ cut' = IF kind \in ends THEN cut \cup (todo \ Tried) ELSE cut
    /\ pc' = "idle" /\ since' = 0 /\ unlisted' = {} /\ todo' = {} /\ current' = None /\ last' = 0

End ==
    /\ pc = "files" /\ (todo = {} \/ stopping)
    /\ stored' = Later(stored, last) /\ Leave({"ftp", "rosftp", "webdav"})
    /\ UNCHANGED <<server, stopping, done, failed, late, unseen, faults>>

\* The server refuses a call: FTP logs it when it is about a file and goes on; read-only
\* SFTP stores the last date it has in any case.
ServerError ==
    /\ pc \in {"list", "extract"} /\ Fault
    /\ IF kind = "ftp" /\ pc = "extract"
       THEN /\ failed' = failed \cup {current} /\ pc' = "raise"
            /\ UNCHANGED <<stored, pass, cut>>
       ELSE /\ stored' = IF kind = "rosftp" THEN Later(stored, last) ELSE stored
            /\ Leave({"ftp", "rosftp"}) /\ UNCHANGED failed
    /\ UNCHANGED <<server, stopping, done, late, unseen>>

\* The database refuses a tick, then takes or refuses the write of the exit.
SaveError ==
    LET dates == Dates(date[current]) IN
    /\ pc = "raise" /\ Fault
    /\ stored' \in {stored, IF kind = "rosftp" THEN Later(stored, dates.last) ELSE dates.stored}
    /\ Leave({"ftp", "rosftp"})
    /\ UNCHANGED <<server, stopping, done, failed, late, unseen>>

Stop ==
    /\ ~stopping /\ pc # "idle" /\ Fault /\ stopping' = TRUE
    /\ UNCHANGED <<server, stored, pc, pass, history>>

Restart ==
    /\ pc = "idle" /\ stopping /\ stopping' = FALSE
    /\ UNCHANGED <<server, stored, pc, pass, history, faults>>

Crash ==
    /\ pc # "idle" /\ Fault /\ Leave({"ftp"}) /\ stopping' = FALSE
    /\ UNCHANGED <<server, stored, done, failed, late, unseen>>

----------------------------------------------------------------------------
Step ==
    \/ Begin \/ StopListing \/ Extract \/ Raise \/ Skip \/ End \/ Restart
    \/ \E d \in Directory : List(d)
    \/ \E f \in File : Take(f)

Next ==
    \/ Step \/ Advance \/ ServerError \/ SaveError \/ Stop \/ Crash
    \/ \E f \in File : Appear(f)

Spec == Init /\ [][Next]_vars
FairSpec == Spec /\ WF_vars(Step)

----------------------------------------------------------------------------
\* No pass will list the file again, and the present one does not have it.
Passed(f) == f \in Present \ (done \cup todo) /\ date[f] <= stored

\* A file FTP does not see: a directory above its own is not touched when it appears.
Hidden(f) ==
    kind = "ftp" /\ \E d \in Above(dir[f]) : Parent[d] # None /\ touched[d] < date[f]

\* The date of the journal passes a file that is not collected only if it was tried, if it
\* appeared after the list of what is beside it, if FTP left a directory above it out, or if
\* a pass left it: one WebDAV stopped in; one of the two others that met the date of another
\* file, for read-only SFTP not by a crash.
OnlyKnownGaps ==
    \A f \in File : Passed(f) =>
        \/ f \in failed \cup late \cup unseen
        \/ f \in cut /\ (kind = "webdav" \/ Twin(f))

\* Every file is tried in the end, but those the date has passed and the hidden ones.
EventuallyTried ==
    <>[](\A f \in Present : f \in Tried \/ Passed(f) \/ Hidden(f))
=============================================================================
