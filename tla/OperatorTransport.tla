-------------------------- MODULE OperatorTransport --------------------------
(***************************************************************************)
(* operator/transport.mjs, protocol.mjs and the panel of endpoint.mjs: the *)
(* collector asks a human operator for one thing at a time.  A request is  *)
(* published to a page of the operator's browser under a fresh nonce; the  *)
(* operator's click comes back as a signal bound to that nonce and turns   *)
(* into a one-use capability with a lifetime.                              *)
(*                                                                         *)
(* Requests are numbered in the order they are issued, and the number      *)
(* stands for the nonce.  Publishing, clicking, delivering, timing out and *)
(* losing the browser interleave at will: a signal may reach the transport *)
(* long after its request was given up and the next one issued.            *)
(***************************************************************************)
EXTENDS Naturals, Sequences, FiniteSets

CONSTANTS
    Timeout,   \* timeoutMs in ticks
    TTL,       \* capabilityTtlMs in ticks
    MaxTime,   \* bound of the clock
    MaxSignals \* bound of the signals and acceptances under way at a time

ASSUME TransportAssumption ==
    /\ Timeout \in Nat \ {0} /\ TTL \in Nat \ {0} /\ MaxTime \in Nat /\ MaxSignals \in Nat

VARIABLES
    now,    \* Date.now() of the controller, in ticks
    op,     \* active request (0: none), closed, aborted, browser gone
    req,    \* every request issued so far, with its capability once answered
    panel,  \* the request the operator's page shows (0: none)
    wire    \* signals on their way to the transport, and its acceptances on theirs to the page

transportVars == <<now, op, req, panel, wire>>

Kinds    == {"challenge", "checkpoint"}
Confirms == [challenge |-> "complete", checkpoint |-> "checkpoint"]
Types    == {"complete", "checkpoint", "abort"}
Settled  == {"answered", "timeout", "aborted", "failed", "closed"}

Request == [kind : Kinds, at : Nat, status : {"active"} \cup Settled,
            publish : {"sent", "shown", "failed"}, clicked : SUBSET Types,
            expires : Nat, used : BOOLEAN]
Signal  == [n : Nat \ {0}, type : Types \cup {"accepted"}]

TransportInit ==
    /\ now = 0
    /\ op = [active |-> 0, closed |-> FALSE, aborted |-> FALSE, gone |-> FALSE]
    /\ req = <<>>
    /\ panel = 0
    /\ wire = {}

-----------------------------------------------------------------------------
(* issue and finishPending.                                                *)

\* The requests after the active one, if there is one, settled as status.  Its timer
\* is cleared; of the clicks only those that could have settled it so are remembered.
Causes(status, kind) == CASE status = "answered" -> {Confirms[kind]}
                          [] status = "aborted"  -> {"abort"}
                          [] OTHER               -> {}
FinishPending(status, expires) ==
    IF op.active = 0 THEN req
    ELSE LET q == req[op.active]
         IN  [req EXCEPT ![op.active] =
                [q EXCEPT !.status = status, !.expires = expires, !.at = 0,
                          !.clicked = q.clicked \cap Causes(status, q.kind)]]

MayIssue == ~op.closed /\ op.active = 0

Issue(kind) ==
    /\ MayIssue
    /\ req' = Append(req, [kind |-> kind, at |-> now, status |-> "active",
                           publish |-> "sent", clicked |-> {}, expires |-> 0, used |-> FALSE])
    /\ op' = [op EXCEPT !.active = Len(req) + 1]
    /\ UNCHANGED <<now, panel, wire>>

\* panel.present renders the request; a newer one replaces what the page showed.
Present(n) ==
    /\ req[n].publish = "sent" /\ ~op.gone
    /\ panel' = n
    /\ req' = [req EXCEPT ![n].publish = "shown"]
    /\ UNCHANGED <<now, op, wire>>

\* A publish that fails rejects its own request only: by then it may have been
\* settled and another one issued.
FailsRequest(n) == op.active = n

\* page.evaluate rejects, before or after the page has rendered the request.
PublishFails(n) ==
    /\ req[n].publish = "sent"
    /\ \E rendered \in BOOLEAN :
         panel' = IF rendered /\ ~op.gone THEN n ELSE panel
    /\ req' = [IF FailsRequest(n) THEN FinishPending("failed", 0) ELSE req
                 EXCEPT ![n].publish = "failed"]
    /\ op' = IF FailsRequest(n) THEN [op EXCEPT !.active = 0] ELSE op
    /\ UNCHANGED <<now, wire>>

\* The timer of a request.
\* Mutant: the request is rejected and stays active.
TimesOutStaysActive ==
    /\ op.active # 0 /\ now >= req[op.active].at + Timeout
    /\ req' = FinishPending("timeout", 0)
    /\ UNCHANGED <<now, op, panel, wire>>
RequestTimesOut ==
    /\ op.active # 0 /\ now >= req[op.active].at + Timeout
    /\ req' = FinishPending("timeout", 0)
    /\ op' = [op EXCEPT !.active = 0]
    /\ UNCHANGED <<now, panel, wire>>

-----------------------------------------------------------------------------
(* The operator's page and acceptSignal.                                   *)

\* The page shows the button of the request's kind and the abort button.  The
\* clicks made while the request was active are kept with it.
Click(type) ==
    /\ panel # 0 /\ Cardinality(wire) < MaxSignals
    /\ type \in {Confirms[req[panel].kind], "abort"}
    /\ req' = IF op.active = panel THEN [req EXCEPT ![panel].clicked = @ \cup {type}] ELSE req
    /\ wire' = wire \cup {[n |-> panel, type |-> type]}
    /\ UNCHANGED <<now, op, panel>>

\* Candidate and attempt are the same for every signal of a collection; what
\* parseOperatorSignal tells signals apart by is the nonce and the type.
\* Mutant: the nonce is not compared.
ParseOperatorSignalByType(s) == s.type \in {Confirms[req[op.active].kind], "abort"}
ParseOperatorSignal(s) ==
    /\ s.n = op.active
    /\ s.type \in {Confirms[req[op.active].kind], "abort"}

Accepts(s) == ~op.closed /\ op.active # 0 /\ ParseOperatorSignal(s)

\* The delivery of a signal; a refused one leaves the page as it is.
AcceptSignal(s) ==
    /\ s \in wire /\ s.type \in Types
    /\ IF Accepts(s)
       THEN /\ req' = IF s.type = "abort" THEN FinishPending("aborted", 0)
                                          ELSE FinishPending("answered", now + TTL)
            /\ op' = [op EXCEPT !.active = 0, !.aborted = @ \/ s.type = "abort"]
            /\ wire' = (wire \ {s}) \cup {[n |-> s.n, type |-> "accepted"]}
       ELSE /\ wire' = wire \ {s}
            /\ UNCHANGED <<op, req>>
    /\ UNCHANGED <<now, panel>>

\* The page hears of an acceptance and clears whatever it shows by then, which may
\* be the next request already.
PageCleared(s) ==
    /\ s.type = "accepted"
    /\ wire' = wire \ {s}
    /\ panel' = 0
    /\ UNCHANGED <<now, op, req>>

\* isOpaqueCapability and verify of one capability, without a step in between.
Verifies(n, kind) ==
    /\ req[n].status = "answered" /\ ~req[n].used /\ ~op.closed
    /\ req[n].kind = kind /\ now < req[n].expires

-----------------------------------------------------------------------------
(* close, the loss of the browser, and time.                               *)

\* transport.close, after which the page is closed too.
Close ==
    /\ req' = FinishPending("closed", 0)
    /\ op' = [op EXCEPT !.active = 0, !.closed = TRUE, !.aborted = TRUE]
    /\ panel' = 0
    /\ wire' = {}
    /\ UNCHANGED now

\* The browser process ends; the listener of runCollect aborts and closes.
Disconnect ==
    /\ ~op.gone /\ ~op.closed
    /\ req' = FinishPending("closed", 0)
    /\ op' = [active |-> 0, closed |-> TRUE, aborted |-> TRUE, gone |-> TRUE]
    /\ panel' = 0
    /\ wire' = {}
    /\ UNCHANGED now

Tick ==
    /\ now < MaxTime
    /\ now' = now + 1
    /\ UNCHANGED <<op, req, panel, wire>>

TransportStep ==
    \/ \E n \in DOMAIN req : Present(n) \/ PublishFails(n)
    \/ RequestTimesOut
    \/ \E type \in Types : Click(type)
    \/ \E s \in wire : AcceptSignal(s) \/ PageCleared(s)
    \/ Disconnect

-----------------------------------------------------------------------------

TransportTypeOK ==
    /\ now \in 0..MaxTime
    /\ op \in [active : 0..Len(req), closed : BOOLEAN, aborted : BOOLEAN, gone : BOOLEAN]
    /\ \A n \in DOMAIN req : req[n] \in Request
    /\ \A n \in DOMAIN req : req[n].status = "active" <=> op.active = n
    /\ panel \in 0..Len(req)
    /\ wire \subseteq Signal

\* Whatever ended a request was meant for it: the operator clicked that very
\* button while that very request was active, or that request's own
\* publication failed.  A click or a failure that arrives after its request
\* timed out never ends the next one (transport.mjs acceptSignal, issue).
SettledByOwnCause ==
    \A n \in DOMAIN req :
        /\ req[n].status = "answered" => Confirms[req[n].kind] \in req[n].clicked
        /\ req[n].status = "aborted" => "abort" \in req[n].clicked
        /\ req[n].status = "failed" => req[n].publish = "failed"

=============================================================================
