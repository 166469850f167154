------------------------------- MODULE Stream -------------------------------
(***************************************************************************)
(* What every stream of the gateway that logs in promises the clients who  *)
(* follow its StreamStatus (server::Stream): the status they are shown     *)
(* only moves forward through login, download and READY, it says READY     *)
(* only after the exchange answered a login of the present connection, and *)
(* a lost connection takes everything back to the start.                   *)
(*                                                                         *)
(* OrderEntrySession, MarketData, WebSocket and DropCopy implement it.     *)
(***************************************************************************)

VARIABLES
    link,     \* "down", or "up" until the Disconnected callback
    status,   \* the ConnectionStatus last published
    session   \* what the exchange said of the login: "none", "open", "ended"

vars == <<link, status, session>>

Status == {"UNDEFINED", "DISCONNECTED", "LOGIN_SENT", "DOWNLOADING", "READY",
           "LOGGED_OUT"}

TypeOK ==
    /\ link \in {"down", "up"}
    /\ status \in Status
    /\ session \in {"none", "open", "ended"}

Init ==
    /\ link = "down"
    /\ status = "UNDEFINED"
    /\ session = "none"

(* Some streams log in at once, others a little later. *)
Connect ==
    /\ link = "down"
    /\ link' = "up"
    /\ status' \in {status, "LOGIN_SENT"}
    /\ UNCHANGED session

LogIn ==
    /\ link = "up"
    /\ status \in {"UNDEFINED", "DISCONNECTED"}
    /\ status' = "LOGIN_SENT"
    /\ UNCHANGED <<link, session>>

(* The login is answered: the download begins, and may be over at once. *)
Answered ==
    /\ link = "up"
    /\ session = "none"
    /\ status = "LOGIN_SENT"
    /\ session' = "open"
    /\ status' \in {"LOGIN_SENT", "DOWNLOADING", "READY"}
    /\ UNCHANGED link

Advance ==
    /\ link = "up"
    /\ session = "open"
    /\ status \in {"LOGIN_SENT", "DOWNLOADING"}
    /\ status' \in {"DOWNLOADING", "READY"}
    /\ UNCHANGED <<link, session>>

LogOut ==
    /\ link = "up"
    /\ session' = "ended"
    /\ status' \in {status, "LOGGED_OUT"}
    /\ UNCHANGED link

Disconnect ==
    /\ link = "up"
    /\ link' = "down"
    /\ status' = "DISCONNECTED"
    /\ session' = "none"

Next == Connect \/ LogIn \/ Answered \/ Advance \/ LogOut \/ Disconnect

Spec == Init /\ [][Next]_vars

=============================================================================
