----------------------------- MODULE Credentials -----------------------------
(***************************************************************************)
(* The credentials of the configurations: collector/credentialmixin.py,    *)
(* with the providers of credentialprovider.py.  A configuration takes the *)
(* fields of a shared entry, those of its own over them, and the keys of   *)
(* its backup from a third entry.  They are read again now and then, and   *)
(* what has changed is set on the configurations, one after the other.     *)
(* Clients are built from them on first use, and kept (downloaders of      *)
(* transfer/stage.py, probes of odatacollector.py).                        *)
(***************************************************************************)
EXTENDS Integers, FiniteSets, TLC

CONSTANTS
    Configs,    \* how many configurations, in the order of credential_targets
    Entry, NoEntry,
    Uses,       \* of each configuration: its shared, own and backup entries
    Secret,     \* SECRET_FIELDS
    Contents,   \* of each entry, what it may hold: functions from fields to values, or Absent
    Absent,
    MaxChanges, \* bound: of an entry, or of the policy of the vault
    MaxErrors   \* bound

VARIABLES
    provider,
    source, denied,  \* the entries, and those the policy of the vault denies
    pc, unread, entries, unreadable, at,
    previous,        \* _credential_entries: what was set last
    attributes,      \* of each configuration
    keys,            \* ... backup_credentials
    client,          \* ... what the client that is kept was built from, or Absent
    touched,         \* history: configurations a refresh has set before it failed
    changes, errors

outside == <<provider, source, denied, changes>>
reading == <<unread, entries, unreadable>>
config == <<attributes, keys, client>>
vars == <<outside, pc, reading, at, previous, config, touched, errors>>

Config == 1..Configs
Names == UNION {{Uses[c].shared, Uses[c].own, Uses[c].backup} : c \in Config} \ {NoEntry}
Sources == {s \in [Entry -> UNION {Contents[e] : e \in Entry}] : \A e \in Entry : s[e] \in Contents[e]}
Nothing == [e \in Entry \cup {NoEntry} |-> Absent]
Empty == [f \in {} |-> Absent]
OrEmpty(content) == IF content = Absent THEN Empty ELSE content

\* credential_fields: the own entry over the shared one.
Fields(c, from) == OrEmpty(from[Uses[c].own]) @@ OrEmpty(from[Uses[c].shared])

Init ==
    /\ provider \in {"file", "vault"}
    /\ source \in Sources /\ denied = {}
    /\ pc = "load" /\ unread = Names /\ entries = Nothing /\ unreadable = {} /\ at = 1
    /\ previous = Nothing
    /\ attributes = [c \in Config |-> Empty] /\ keys = [c \in Config |-> Empty]
    /\ client = [c \in Config |-> Absent]
    /\ touched = {} /\ changes = MaxChanges /\ errors = MaxErrors

----------------------------------------------------------------------------
(* The source.                                                              *)

\* A file is written at once, a vault one entry after the other.
Rotate ==
    /\ changes > 0 /\ changes' = changes - 1
    /\ source' \in Sources \ {source}
    /\ provider = "vault" => Cardinality({e \in Entry : source'[e] # source[e]}) = 1
    /\ UNCHANGED <<provider, denied, pc, reading, at, previous, config, touched, errors>>

ChangePolicy(e) ==
    /\ provider = "vault" /\ changes > 0 /\ changes' = changes - 1
    /\ denied' = IF e \in denied THEN denied \ {e} ELSE denied \cup {e}
    /\ UNCHANGED <<provider, source, pc, reading, at, previous, config, touched, errors>>

----------------------------------------------------------------------------
(* A read: of the whole file, or of one entry of the vault after the other. *)

Loading == pc \in {"load", "set"}

Begin ==
    /\ pc = "idle" /\ pc' = "read"
    /\ unread' = Names /\ entries' = Nothing /\ unreadable' = {}
    /\ UNCHANGED <<outside, at, previous, config, touched, errors>>

ReadFile ==
    /\ pc \in {"load", "read"} /\ provider = "file" /\ unread # {}
    /\ entries' = [e \in DOMAIN Nothing |-> IF e \in unread THEN source[e] ELSE Absent]
    /\ unread' = {}
    /\ UNCHANGED <<outside, pc, unreadable, at, previous, config, touched, errors>>

ReadSecret(e) ==
    /\ pc \in {"load", "read"} /\ provider = "vault" /\ e \in unread
    /\ IF e \in denied
       THEN unreadable' = unreadable \cup {e} /\ UNCHANGED entries
       ELSE entries' = [entries EXCEPT ![e] = source[e]] /\ UNCHANGED unreadable
    /\ unread' = unread \ {e}
    /\ UNCHANGED <<outside, pc, at, previous, config, touched, errors>>

\* At the start an error ends the process, that is started again.
StartAgain ==
    /\ pc' = "load" /\ unread' = Names /\ entries' = Nothing /\ unreadable' = {} /\ at' = 1
    /\ attributes' = [c \in Config |-> Empty] /\ keys' = [c \in Config |-> Empty]
    /\ UNCHANGED client

ReadError ==
    /\ pc \in {"load", "read"} /\ errors > 0 /\ errors' = errors - 1
    /\ IF Loading THEN StartAgain ELSE pc' = "idle" /\ UNCHANGED <<reading, at, config>>
    /\ UNCHANGED <<outside, previous, touched>>

----------------------------------------------------------------------------
(* What was read.                                                           *)

\* load_credentials.
Load ==
    /\ pc = "load" /\ unread = {}
    /\ IF unreadable # {} THEN StartAgain /\ UNCHANGED previous
       ELSE /\ previous' = entries /\ pc' = "set" /\ at' = 1
            /\ UNCHANGED <<reading, config>>
    /\ UNCHANGED <<outside, touched, errors>>

\* refresh_credentials.  An entry that can no longer be read keeps its values.
Kept == [e \in DOMAIN Nothing |-> IF e \in unreadable THEN previous[e] ELSE entries[e]]

Compare ==
    /\ pc = "read" /\ unread = {}
    /\ entries' = Kept
    /\ IF \E e \in Names : previous[e] # Kept[e]
       THEN pc' = "apply" /\ at' = 1
       ELSE pc' = "idle" /\ UNCHANGED at
    /\ UNCHANGED <<outside, unread, unreadable, previous, config, touched, errors>>

Changed == {e \in Names : previous[e] # entries[e]}

\* Mutant: the shared entry does not count.
OwnChanged(c) == Uses[c].own \in Changed
InterfaceChanged(c) == {Uses[c].shared, Uses[c].own} \cap Changed # {}
BackupChanged(c) == Uses[c].backup \in Changed
Concerned == {c \in Config : InterfaceChanged(c) \/ BackupChanged(c)}

IsMalformed(content) == content # Absent /\ ~(DOMAIN content \subseteq Secret)
Refused(c) == Uses[c].backup # NoEntry /\ IsMalformed(entries[Uses[c].backup])

\* set_credential_attributes: what an entry no longer has stays.
SetAttributes(c) == attributes' = [attributes EXCEPT ![c] = Fields(c, entries) @@ @]

Sets(c) == pc = "set" \/ (pc = "apply" /\ InterfaceChanged(c))
SetsKeys(c) == Uses[c].backup # NoEntry /\ (pc = "set" \/ (pc = "apply" /\ BackupChanged(c)))

SetOne ==
    /\ pc \in {"set", "apply"} /\ at <= Configs /\ ~(SetsKeys(at) /\ Refused(at))
    /\ IF Sets(at) THEN SetAttributes(at) ELSE UNCHANGED attributes
    /\ keys' = IF SetsKeys(at) THEN [keys EXCEPT ![at] = OrEmpty(entries[Uses[at].backup])] ELSE keys
    /\ at' = at + 1
    /\ UNCHANGED <<outside, pc, reading, previous, client, touched, errors>>

\* A backup entry holds more than keys: the attributes are set, the refresh is over, and
\* what it did not set is compared again by the next one.
SetRefused ==
    /\ pc \in {"set", "apply"} /\ at <= Configs /\ SetsKeys(at) /\ Refused(at)
    /\ IF Loading
       THEN StartAgain /\ UNCHANGED <<previous, touched>>
       ELSE /\ IF Sets(at) THEN SetAttributes(at) ELSE UNCHANGED attributes
            /\ touched' = touched \cup {c \in Concerned : c <= at}
            /\ pc' = "idle" /\ UNCHANGED <<reading, at, previous, keys, client>>
    /\ UNCHANGED <<outside, errors>>

\* on_credentials_changed: the clients of these configurations are built again.
Done ==
    /\ pc \in {"set", "apply"} /\ at > Configs
    /\ IF pc = "set" THEN UNCHANGED <<client, touched>>
       ELSE /\ client' = [c \in Config |-> IF c \in Concerned THEN Absent ELSE client[c]]
            /\ touched' = touched \ Concerned
    /\ previous' = entries /\ pc' = "idle"
    /\ UNCHANGED <<outside, reading, at, attributes, keys, errors>>

Collect(c) ==
    /\ pc = "idle" /\ client[c] = Absent
    /\ client' = [client EXCEPT ![c] = attributes[c]]
    /\ UNCHANGED <<outside, pc, reading, at, previous, attributes, keys, touched, errors>>

Step ==
    \/ Begin \/ ReadFile \/ Load \/ Compare \/ SetOne \/ SetRefused \/ Done
    \/ \E e \in Entry : ReadSecret(e)

Next ==
    \/ Step \/ ReadError \/ Rotate
    \/ \E c \in Config : Collect(c)
    \/ \E e \in Entry : ChangePolicy(e)

Spec == Init /\ [][Next]_vars
FairSpec == Spec /\ WF_vars(Step)

----------------------------------------------------------------------------
\* What the source says, a denied entry being what it was.
Said == [e \in DOMAIN Nothing |->
            IF e = NoEntry THEN Absent ELSE IF e \in denied THEN previous[e] ELSE source[e]]

Agrees(fields, said) == \A f \in DOMAIN said : f \in DOMAIN fields /\ fields[f] = said[f]

IsCurrent(c) ==
    /\ Agrees(attributes[c], Fields(c, Said))
    /\ Uses[c].backup # NoEntry => keys[c] = OrEmpty(Said[Uses[c].backup])
    /\ client[c] # Absent => Agrees(client[c], Fields(c, Said))

IsMalformedSomewhere == \E c \in Config : Uses[c].backup # NoEntry /\ IsMalformed(Said[Uses[c].backup])

\* Every configuration, and its client, has the credentials of the source in the end, those
\* the policy denies as they were, unless one backup entry is malformed, the collector cannot
\* start, or a refresh that failed half-way has left the configuration with values that were
\* taken back since.
EventuallyCurrent ==
    <>[](\A c \in Config :
            \/ IsCurrent(c) \/ IsMalformedSomewhere \/ c \in touched
            \/ Loading /\ denied # {})
=============================================================================
