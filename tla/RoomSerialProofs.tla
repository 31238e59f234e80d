-------------------------- MODULE RoomSerialProofs ---------------------------
(***************************************************************************)
(* Proofs about RoomMembers with MAX_WORKERS = 1: between requests, the    *)
(* subscriptions and the room_members rows agree, the counter of the room  *)
(* is exact, and the key follows the membership.                           *)
(*                                                                         *)
(* RoomRosterProofs follows the roster and the counter step by step,       *)
(* RoomMembersProofs the keys; here the three are put together.            *)
(***************************************************************************)
EXTENDS RoomRosterProofs, RoomMembersProofs, FiniteSetTheorems

(* The accounts are finitely many. *)
LEMMA AccountsAreCounted == AccountsCount
<1>1. ASSUME NEW s \in SUBSET Accounts PROVE IsFiniteSet(s)
  BY <1>1, FiniteAssumption, FS_Subset, ZenonT(60)
<1>2. ASSUME NEW s \in SUBSET Accounts, NEW t \in SUBSET Accounts, s \cap t = {}
      PROVE  Cardinality(s \cup t) = Cardinality(s) + Cardinality(t)
  <2>1. Cardinality(s \cup t) = Cardinality(s) + Cardinality(t) - Cardinality({})
    BY <1>1, <1>2, FS_Union, ZenonT(60)
  <2>2. Cardinality({}) = 0 /\ Cardinality(s) \in Nat /\ Cardinality(t) \in Nat
    BY <1>1, FS_EmptySet, FS_CardinalityType, ZenonT(60)
  <2> QED
    BY <2>1, <2>2, SMTT(60)
<1>3. Cardinality({}) = 0
  BY FS_EmptySet, Zenon
<1>4. ASSUME NEW s \in SUBSET Accounts PROVE Cardinality(s) \in Nat /\ (Cardinality(s) = 0 => s = {})
  BY <1>1, <1>4, FS_EmptySet, FS_CardinalityType, ZenonT(60)
<1> QED
  BY <1>2, <1>3, <1>4, ZenonT(60) DEF AccountsCount

(* The invariant of the roster, whatever MAX_WORKERS is. *)
SerialInv == Base /\ (workers = 1 => Serial)

(* It holds in every state. *)
LEMMA SerialInvariant == Spec => []SerialInv
<1>1. Init => SerialInv
  BY InitBase, InitSerial, ZenonT(60) DEF SerialInv
<1>2. SerialInv /\ [Next]_vars => SerialInv'
  <2> SUFFICES ASSUME SerialInv, [Next]_vars PROVE SerialInv'
    OBVIOUS
  <2>1. Base' /\ workers' = workers
    BY NextPreserves, WorkersStay, ZenonT(60) DEF Preserved, SerialInv
  <2>2. workers = 1 => Serial'
    BY NextSerial, Zenon DEF SerialInv
  <2> QED
    BY <2>1, <2>2, ZenonT(60) DEF SerialInv
<1> QED
  BY <1>1, <1>2, PTL DEF Spec

(* With one worker, the subscriptions are exactly the rows and the members of
   the organisations between requests, and every owner has a row, for every
   number of accounts, organisations and requests and however often handlers fail
   and run again. *)
THEOREM RosterStays == Spec => []RosterAgrees
<1>1. SerialInv => RosterAgrees
  <2> SUFFICES ASSUME SerialInv, workers = 1, AtRest, ~torn, Tracking
               PROVE  subs = irm \cup MembersOf(orgRows) /\ owners \subseteq irm
    BY Zenon DEF RosterAgrees
  <2>1. Roster /\ \A i \in DOMAIN state : ~Open(i)
    BY RestIdle, ZenonT(60) DEF SerialInv, Serial
  <2>2. subs \subseteq Covered /\ owners \subseteq irm
    BY <2>1, SMTT(60) DEF Roster, SubscribersCovered, OwnersCovered
  <2>3. irm \subseteq subs
    BY <2>1, SMTT(60) DEF Roster, RowsSubscribed
  <2>4. MembersOf(orgRows) \subseteq subs
    BY <2>1, SMTT(60) DEF Roster, OrgsSubscribed, MembersOf
  <2> QED
    BY <2>2, <2>3, <2>4, SMTT(60) DEF Covered
<1> QED
  BY <1>1, SerialInvariant, PTL
-----------------------------------------------------------------------------
(* Every step preserves the invariant, with one worker. *)
LEMMA NextCustody ==
  ASSUME Base, Serial, Custody, AccountsCount, workers = 1, [Next]_vars
  PROVE  Custody'
<1>1. ASSUME NEW w \in Workers, Step(w) PROVE Custody'
  <2>0. Ready(w)
    BY <1>1, StepReady, ZenonT(60)
  <2>1. CASE \/ CreateRoom(w) \/ ExistingRoomKey(w) \/ ExistingRoomSet(w) \/ CreateSubs(w)
             \/ CreateRows(w) \/ CreateCrossSite(w)
    BY <2>0, <2>1, CreateCustody, ZenonT(60)
  <2>2. CASE \/ LoadAddMemberInputs(w) \/ KeyPairOrHeal(w) \/ Heal(w) \/ AddSubs(w) \/ Backfill(w)
             \/ AddRows(w) \/ BulkFails(w) \/ ApplyMemberCountDelta(w) \/ SubscriptionAdded(w)
    BY <2>0, <2>2, AddCustody, EndCustody, ZenonT(60)
  <2>3. CASE \/ RemoveMember(w) \/ GetUserWithMembership(w) \/ DeleteRoomMember(w) \/ RemoveRole(w)
             \/ DeleteSubscription(w) \/ GetOrgMembers(w) \/ DeleteOrgRow(w)
             \/ GetSubscriptionAccounts(w) \/ CommitRotation(w) \/ ArchiveDemoted(w) \/ FanOutKey(w)
    BY <2>0, <2>3, LeaveCustody, EndCustody, RotateCustody, ArchiveCustody, ZenonT(60)
  <2>4. CASE ReconcileCount(w) \/ ReconcileWrite(w) \/ Publish(w)
    BY <2>0, <2>4, RecountCustody, EndCustody, ZenonT(60)
  <2> QED
    BY <1>1, <2>1, <2>2, <2>3, <2>4, ZenonT(60) DEF Step
<1>2. CASE \E w \in Workers : Fail(w)
  BY <1>2, StepReady, EndCustody, ZenonT(60)
<1>3. CASE \E i \in DOMAIN state : Submit(i)
  BY <1>3, SubmitCustody, ZenonT(60)
<1>4. CASE \E w \in Workers, i \in DOMAIN state : Deliver(w, i)
  BY <1>4, DeliverAlone, DeliverCustody, ZenonT(60)
<1>5. CASE EnsureGet \/ EnsureSet
  BY <1>5, EnsureCustody, ZenonT(60)
<1>6. CASE UNCHANGED vars
  BY <1>6, StutterCustody, ZenonT(60)
<1> QED
  BY <1>1, <1>2, <1>3, <1>4, <1>5, <1>6, ZenonT(60) DEF Next, Rest

(* It holds in every state of a room whose requests are handled one at a time. *)
LEMMA CustodyInvariant == Spec => [](SerialInv /\ (workers = 1 => Custody))
<1>1. Init => (workers = 1 => Custody)
  BY InitCustody, SMTT(60)
<1>2. SerialInv /\ (workers = 1 => Custody) /\ [Next]_vars => (workers = 1 => Custody)'
  BY NextCustody, AccountsAreCounted, WorkersStay, ZenonT(60) DEF SerialInv
<1> QED
  BY <1>1, <1>2, SerialInvariant, PTL DEF Spec

(* With one worker, nobody outside the room holds its current key between
   requests, whatever failed on the way; and if nothing was lost, every member of
   a room created with a key does. *)
THEOREM KeyStaysWithMembers == Spec => []KeyFollowsMembership
<1>1. SerialInv /\ (workers = 1 => Custody) => KeyFollowsMembership
  <2> SUFFICES ASSUME SerialInv, Custody, workers = 1, AtRest, key # NoKey
               PROVE  /\ \A a \in Accounts \ subs : key \notin held[a]
                      /\ faults = 0 /\ Keyed => \A a \in subs : key \in held[a]
    BY Zenon DEF KeyFollowsMembership, Keyed
  <2>1. (\A w \in Workers : job[w].pc = "idle") /\ \A i \in DOMAIN state : ~Open(i)
    BY RestIdle, ZenonT(60) DEF SerialInv
  <2>2. \A w \in Workers : \A a : ~Owes(w, a) /\ ~Told(w, a)
    BY <2>1, SMTT(60) DEF Owes, Told, At, Unloaded, Unrotated
  <2>3. \A a : ~Waiting(a)
    BY <2>1, SMTT(60) DEF Waiting, Open
  <2> QED
    BY <2>2, <2>3, ZenonT(60) DEF Custody, Leavers, Supplied, Sure
<1> QED
  BY <1>1, CustodyInvariant, PTL
-----------------------------------------------------------------------------
(* It holds in every state of a room whose requests are handled one at a time. *)
LEMMA TallyInvariant == Spec => [](SerialInv /\ (workers = 1 => Tally))
<1>1. Init => (workers = 1 => Tally)
  BY InitTally, AccountsAreCounted, ZenonT(60)
<1>2. SerialInv /\ (workers = 1 => Tally) /\ [Next]_vars => (workers = 1 => Tally)'
  BY NextTally, AccountsAreCounted, WorkersStay, ZenonT(60) DEF SerialInv
<1> QED
  BY <1>1, <1>2, SerialInvariant, PTL DEF Spec

(* With one worker, the counter of the room is the number of its subscriptions
   between requests, unless a call failed since the last recount: the deltas of
   the additions and the recounts of creations and removals add up. *)
THEOREM CountStaysExact == Spec => []CountExact
<1>1. SerialInv /\ (workers = 1 => Tally) => CountExact
  BY RestIdle, Zenon DEF SerialInv, Tally, CountExact
<1> QED
  BY <1>1, TallyInvariant, PTL
=============================================================================
