-------------------------------- MODULE Token --------------------------------
(***************************************************************************)
(* A token that is kept: the OAuth workflow of http/authentication.py, in  *)
(* the hands of the downloader of transfer/download.py, that asks once for *)
(* another token when its own is refused.  Durations count down: what is   *)
(* left of a token is the server's truth, what is left until a date is     *)
(* what the client believes.                                               *)
(***************************************************************************)
EXTENDS Integers

CONSTANTS
    Access, Refresh,  \* how long the server's tokens last
    Announces,        \* whether its answers tell how long; a day by default
    Day, None,
    MaxDelay,         \* bound: time from a request to its answer
    MaxRevocations    \* bound

VARIABLES
    access, refresh,       \* what is left of the two tokens, or None
    accessDate, refreshDate, \* what is left until the dates of the client
    pc, how,               \* how the token is asked for: "init" or "refresh"
    asked, granted,        \* time since the request, and since the server granted it
    late,                  \* ... of the answer that brought the token
    by,                    \* "init" or "refresh": the same answer
    tries, told,           \* requests of the download, and what the last one got
    wanted, served,
    revocations

server == <<access, refresh>>
dates == <<accessDate, refreshDate>>
asking == <<how, asked, granted, late, by>>
want == <<wanted, served>>
vars == <<server, dates, pc, asking, tries, told, want, revocations>>

Init ==
    /\ access = None /\ refresh = None /\ accessDate = 0 /\ refreshDate = None
    /\ pc = "idle" /\ how = "init" /\ asked = 0 /\ granted = 0 /\ late = 0 /\ by = "init"
    /\ tries = 0 /\ told = "nothing" /\ wanted = FALSE /\ served = FALSE
    /\ revocations = MaxRevocations

----------------------------------------------------------------------------
(* Time, and the server.                                                    *)

Countdown(left, least) == IF left = None \/ left = least THEN left ELSE left - 1

\* A request is answered within MaxDelay; what is between a token and its use takes no time.
Tick ==
    /\ pc \notin {"headers", "send"}
    /\ pc \in {"asking", "granted"} => asked < MaxDelay
    /\ access' = Countdown(access, -MaxDelay) /\ refresh' = Countdown(refresh, 0)
    /\ accessDate' = Countdown(accessDate, 0) /\ refreshDate' = Countdown(refreshDate, 0)
    /\ asked' = IF pc \in {"asking", "granted"} THEN asked + 1 ELSE asked
    /\ granted' = IF pc = "granted" THEN granted + 1 ELSE granted
    /\ UNCHANGED <<pc, how, late, by, tries, told, want, revocations>>

\* The session behind both tokens is closed.
Revoke ==
    /\ revocations > 0 /\ revocations' = revocations - 1 /\ access # None
    /\ access' = 0 /\ refresh' = IF refresh = None THEN None ELSE 0
    /\ UNCHANGED <<dates, pc, asking, tries, told, want>>

Grant ==
    /\ pc = "asking" /\ (how = "refresh" => refresh # None /\ refresh > 0)
    /\ access' = Access /\ granted' = 0 /\ pc' = "granted"
    /\ refresh' = IF how = "init" THEN Refresh ELSE refresh
    /\ UNCHANGED <<dates, how, asked, late, by, tries, told, want, revocations>>

\* An error of the client, not of the server: it is raised as it is, and ends the download.
Deny ==
    /\ pc = "asking" /\ how = "refresh" /\ (refresh = None \/ refresh = 0)
    /\ pc' = "idle" /\ asked' = 0 /\ told' = "denied"
    /\ UNCHANGED <<server, dates, how, granted, late, by, tries, want, revocations>>

----------------------------------------------------------------------------
(* OAuth.get_token.                                                         *)

\* Mutant: a refresh token is used whatever its date.
AnyDate == refreshDate # None
CanRefresh == refreshDate # None /\ refreshDate > 0

GetToken ==
    /\ pc = "headers"
    /\ IF accessDate > 0 THEN pc' = "send" /\ UNCHANGED asking
       ELSE /\ pc' = "asking" /\ how' = (IF CanRefresh THEN "refresh" ELSE "init")
            /\ asked' = 0 /\ granted' = 0 /\ UNCHANGED <<late, by>>
    /\ UNCHANGED <<server, dates, tries, told, want, revocations>>

\* The date of a first token counts from the answer, that of a refreshed one from the
\* request.
AnnouncedDate == IF Announces THEN Access ELSE Day
FromTheAnswer == AnnouncedDate
\* Mutant: it counts from the answer too.
FromAnyAnswer == AnnouncedDate
FromTheRequest == AnnouncedDate - asked

\* A refresh keeps the refresh token and its date.
Answer ==
    /\ pc = "granted"
    /\ accessDate' = IF how = "init" THEN FromTheAnswer ELSE FromTheRequest
    /\ refreshDate' = IF how = "refresh" THEN refreshDate
                      ELSE IF Refresh # None /\ Announces THEN Refresh ELSE None
    /\ late' = granted /\ by' = how /\ asked' = 0 /\ granted' = 0 /\ pc' = "send"
    /\ UNCHANGED <<server, how, tries, told, want, revocations>>

----------------------------------------------------------------------------
(* ProductDownloader.open_stream.                                           *)

Want ==
    /\ ~wanted /\ wanted' = TRUE /\ served' = FALSE
    /\ UNCHANGED <<server, dates, pc, asking, tries, told, revocations>>

Begin ==
    /\ pc = "idle" /\ wanted
    /\ pc' = "headers" /\ tries' = 0 /\ told' = "nothing"
    /\ UNCHANGED <<server, dates, asking, want, revocations>>

Accepted ==
    /\ pc = "send" /\ access > 0
    /\ served' = TRUE /\ wanted' = FALSE /\ told' = "accepted" /\ pc' = "idle"
    /\ UNCHANGED <<server, dates, asking, tries, revocations>>

\* expire_token, once: the second refusal is permanent.
Unauthorized ==
    /\ pc = "send" /\ access <= 0
    /\ IF tries = 0
       THEN accessDate' = 0 /\ tries' = 1 /\ pc' = "headers" /\ UNCHANGED told
       ELSE told' = "refused" /\ pc' = "idle" /\ UNCHANGED <<accessDate, tries>>
    /\ UNCHANGED <<server, refreshDate, asking, want, revocations>>

\* Another pass, or new credentials, builds the authentication again.
Rebuild ==
    /\ pc = "idle" /\ accessDate' = 0 /\ refreshDate' = None
    /\ UNCHANGED <<server, pc, asking, tries, told, want, revocations>>

Step == Grant \/ Deny \/ GetToken \/ Answer \/ Begin \/ Accepted \/ Unauthorized
Next == Step \/ Tick \/ Revoke \/ Want \/ Rebuild

Spec == Init /\ [][Next]_vars
FairSpec == Spec /\ WF_vars(Step) /\ SF_vars(Tick)

----------------------------------------------------------------------------
\* Nobody closed the session.
Untouched == revocations = MaxRevocations

\* A token that expired is only sent if its answer came after it had, or is the first one,
\* of an answer that late; nor is a download refused for good, if answers take less than a
\* token lasts; but for a session the server closed.
SentInTime ==
    (Untouched /\ Announces) =>
        /\ pc = "send" /\ access <= 0 =>
               late >= Access \/ (by = "init" /\ access + late > 0)
        /\ told = "refused" => MaxDelay >= Access

\* Every download is served in the end, whatever the server closed: not before the date of
\* a refresh token it no longer takes.
EventuallyServed == []<>(wanted => served)
=============================================================================
