---------------------------- MODULE LeaseManager ----------------------------
(***************************************************************************)
(* The whole-robot control lease (dds/src/lease.cpp).                      *)
(*                                                                         *)
(* One optional lease, a counter of lease identities and the last accepted *)
(* sequence number of the control and of the stream channel.  Every method *)
(* of LeaseManager runs under its mutex, so every method is one step.      *)
(*                                                                         *)
(* Time is relative: lease.ttl is the number of ticks left until           *)
(* expires_at and "now >= expires_at" is ttl = 0.  An expired lease stays  *)
(* active_ until expire_if_needed, release, revoke or acquire replaces it. *)
(***************************************************************************)
EXTENDS Integers

CONSTANTS
  Clients,     \* client_id of every SDK process that talks to the service
  NoClient,    \* the owner of no lease
  LeaseTicks,  \* the lease period (kLeaseTimeout, 250 ms) in ticks
  MaxLease,    \* bound on next_lease_id_
  MaxSeq       \* bound on the sequence numbers clients use

ASSUME LeaseAssumption ==
  /\ NoClient \notin Clients
  /\ LeaseTicks \in Nat \ {0}
  /\ MaxLease \in Nat
  /\ MaxSeq \in Nat

VARIABLES
  lease,      \* active_: identity, owner and remaining ticks; NoLease if none
  nextLease,  \* next_lease_id_
  ctlSeq,     \* last_control_sequence_, 0 when reset
  strSeq      \* last_stream_sequence_, 0 when reset

leaseVars == <<lease, nextLease, ctlSeq, strSeq>>

LeaseId == 1..MaxLease
Sequence == 1..MaxSeq

NoLease == [id |-> 0, client |-> NoClient, ttl |-> 0]
LeaseRecord == [id : LeaseId, client : Clients, ttl : 0..LeaseTicks]

LeaseTypeOK ==
  /\ lease \in LeaseRecord \cup {NoLease}
  /\ nextLease \in 1..(MaxLease + 1)
  /\ ctlSeq \in 0..MaxSeq
  /\ strSeq \in 0..MaxSeq

-----------------------------------------------------------------------------
(* State formulae *)

Active == lease # NoLease
Expired == Active /\ lease.ttl = 0

\* active_ belongs to this client under this identity; expiry is not looked at.
Owns(c, l) == Active /\ lease.client = c /\ lease.id = l

\* The test that authorize and the queued-request rechecks share.
Valid(c, l) == Owns(c, l) /\ lease.ttl > 0

-----------------------------------------------------------------------------
(* Methods *)

LeaseInit ==
  /\ lease = NoLease
  /\ nextLease = 1
  /\ ctlSeq = 0
  /\ strSeq = 0

ResetSequences ==
  /\ ctlSeq' = 0
  /\ strSeq' = 0

Refresh == lease' = [lease EXCEPT !.ttl = LeaseTicks]

\* Mutant: acquire without the Busy answer.
AcquireUnchecked(c) ==
  IF Active /\ lease.client = c /\ lease.ttl > 0
    THEN Refresh /\ UNCHANGED <<nextLease, ctlSeq, strSeq>>
    ELSE /\ nextLease <= MaxLease
         /\ lease' = [id |-> nextLease, client |-> c, ttl |-> LeaseTicks]
         /\ nextLease' = nextLease + 1
         /\ ResetSequences

\* acquire: an unexpired lease of another client answers Busy (no change);
\* no lease, an expired one or somebody else's is replaced by a new identity
\* -- without notify_lost --, the owner's own live lease is prolonged.
Acquire(c) ==
  \/ /\ Active /\ lease.ttl > 0 /\ lease.client # c
     /\ UNCHANGED leaseVars
  \/ /\ Active /\ lease.ttl > 0 /\ lease.client = c
     /\ Refresh
     /\ UNCHANGED <<nextLease, ctlSeq, strSeq>>
  \/ /\ ~Active \/ lease.ttl = 0
     /\ nextLease <= MaxLease
     /\ lease' = [id |-> nextLease, client |-> c, ttl |-> LeaseTicks]
     /\ nextLease' = nextLease + 1
     /\ ResetSequences

\* Mutant: sequence < last instead of sequence <= last is stale.
ControlAcceptedTwice(c, l, s) == Valid(c, l) /\ s >= ctlSeq

\* authorize on the control channel: only a request of the valid lease with a
\* sequence number above the last one passes.
ControlAccepted(c, l, s) == Valid(c, l) /\ s > ctlSeq

\* authorize on the stream channel.
StreamAccepted(c, l, s) == Valid(c, l) /\ s > strSeq

\* authorize(Control, refresh = false), the accepting path.
AuthorizeControl(c, l, s) ==
  /\ ControlAccepted(c, l, s)
  /\ ctlSeq' = s
  /\ UNCHANGED <<lease, nextLease, strSeq>>

\* heartbeat is authorize(Control, refresh = true).
Heartbeat(c, l, s) ==
  /\ ControlAccepted(c, l, s)
  /\ ctlSeq' = s
  /\ Refresh
  /\ UNCHANGED <<nextLease, strSeq>>

\* authorize(Stream, refresh = true), the accepting path.
AuthorizeStream(c, l, s) ==
  /\ StreamAccepted(c, l, s)
  /\ strSeq' = s
  /\ Refresh
  /\ UNCHANGED <<nextLease, ctlSeq>>

\* refresh_after_control: prolongs the lease even when it has already expired,
\* as long as nobody has reaped or replaced it.
RefreshAfterControl(c, l) ==
  /\ IF Owns(c, l) THEN Refresh ELSE UNCHANGED lease
  /\ UNCHANGED <<nextLease, ctlSeq, strSeq>>

\* The part release, expire_if_needed and revoke share: active_.reset().
DropLease ==
  /\ lease' = NoLease
  /\ ResetSequences
  /\ UNCHANGED nextLease

\* One tick of the steady clock.
LeaseTick ==
  /\ lease' = [lease EXCEPT !.ttl = IF @ > 0 THEN @ - 1 ELSE 0]
  /\ UNCHANGED <<nextLease, ctlSeq, strSeq>>

=============================================================================
