------------------------- MODULE MessageSendProofs -------------------------
(***************************************************************************)
(* Proofs about MessageSend for any sends, keys, failures and crashes: the *)
(* pending map and the lookup make sendMessage an idempotent send.         *)
(***************************************************************************)
EXTENDS MessageSend, TLAPS

Before == {"idle", "waiting", "access", "lookup", "create"}

(* Where an invocation stands tells whether its message is stored and      *)
(* published.                                                              *)
Progress ==
    /\ \A s \in Send : phase[s] \in Before => s \notin messages
    /\ \A s \in Send : phase[s] \in {"stored", "touch"} => s \in messages
    /\ \A s \in Send : phase[s] \in Before \cup {"stored"} => broadcasts[s] = 0

(* What the lookup found out stays true until the create: nobody else with *)
(* this key is running.                                                    *)
LookupHolds ==
    \A s \in Send : phase[s] = "create" => Stored(s) = {}

Unanswered == \A s \in Send : phase[s] # "done" => answer[s] = NoSend

Inv ==
    /\ TypeOK
    /\ Progress
    /\ PendingIsRunning
    /\ LookupHolds
    /\ OneMessagePerKey
    /\ BroadcastIsDurable
    /\ Unanswered

-----------------------------------------------------------------------------
LEMMA InitInv == Init => Inv
BY SendAssumption
DEF Init, Inv, TypeOK, Phase, Working, Progress, Before, PendingIsRunning,
    LookupHolds, Stored, OneMessagePerKey, BroadcastIsDurable, Unanswered

(* At most one running send per key. *)
LEMMA OneRunning ==
    ASSUME PendingIsRunning, NEW s \in Send, NEW t \in Send,
           phase[s] \in Working, phase[t] \in Working,
           KeyOf[s] = KeyOf[t], KeyOf[s] # NoKey
    PROVE  s = t
BY DEF PendingIsRunning

LEMMA SettledFacts ==
    ASSUME Inv, NEW s \in Send, phase[s] \in Working
    PROVE  /\ s \in Settled(s)
           /\ Settled(s) \subseteq Send
           /\ \A w \in Settled(s) : phase[w] \in Working \cup {"waiting"}
           /\ \A w \in Settled(s) \ {s} : phase[w] = "waiting"
           /\ \A w \in Settled(s) \ {s} : KeyOf[w] = KeyOf[s] /\ KeyOf[s] # NoKey
<1>1. /\ s \in Settled(s)
      /\ Settled(s) \subseteq Send
      /\ \A w \in Settled(s) \ {s} : phase[w] = "waiting" /\ leader[w] = s
  BY DEF Settled
<1>2. ASSUME NEW w \in Settled(s) \ {s}
      PROVE  KeyOf[w] = KeyOf[s] /\ KeyOf[s] # NoKey
  <2>1. KeyOf[w] # NoKey /\ pendingSends[KeyOf[w]] = s /\ s # NoSend
    BY <1>1, <1>2 DEF Inv, PendingIsRunning
  <2>2. KeyOf[w] \in ClientKey
    BY <1>1, <1>2, <2>1, SendAssumption
  <2> QED
    BY <2>1, <2>2 DEF Inv, PendingIsRunning
<1> QED
  BY <1>1, <1>2

(* Settling the promise of a running send, and dropping its map entry,     *)
(* keeps the map in step with what is running.                             *)
LEMMA SettleKeepsPending ==
    ASSUME Inv, NEW s \in Send, phase[s] \in Working,
           NEW final \in {"done", "failed"},
           phase' = [w \in Send |-> IF w \in Settled(s) THEN final ELSE phase[w]],
           pendingSends' = Forget(s),
           UNCHANGED leader
    PROVE  /\ phase' \in [Send -> Phase]
           /\ pendingSends' \in [ClientKey -> Send \cup {NoSend}]
           /\ PendingIsRunning'
<1>1. phase' \in [Send -> Phase]
  BY DEF Inv, TypeOK, Phase
<1>2. pendingSends' \in [ClientKey -> Send \cup {NoSend}]
  BY DEF Inv, TypeOK, Forget
<1>3. \A t \in Send : phase'[t] \in Working \cup {"waiting"}
          => phase'[t] = phase[t] /\ t \notin Settled(s) /\ t # s
  BY SettledFacts DEF Working
<1>4. ASSUME NEW t \in Send, KeyOf[t] # NoKey,
             phase'[t] \in Working \cup {"waiting"}
      PROVE  pendingSends'[KeyOf[t]] = pendingSends[KeyOf[t]]
  <2>1. phase[t] \in Working => pendingSends[KeyOf[t]] = t
    BY <1>3, <1>4 DEF Inv, PendingIsRunning
  <2>2. phase[t] = "waiting" => leader[t] # s /\ pendingSends[KeyOf[t]] = leader[t]
    BY <1>3, <1>4 DEF Inv, PendingIsRunning, Settled
  <2>3. KeyOf[s] # NoKey => pendingSends[KeyOf[s]] = s
    BY DEF Inv, PendingIsRunning
  <2>4. KeyOf[s] # NoKey => KeyOf[s] # KeyOf[t]
    BY <1>3, <1>4, <2>1, <2>2, <2>3 DEF Working
  <2> QED
    BY <1>4, <2>4, SendAssumption DEF Forget, Inv, TypeOK
<1>5. \A k \in ClientKey : pendingSends'[k] # NoSend =>
          /\ phase'[pendingSends'[k]] \in Working
          /\ KeyOf[pendingSends'[k]] = k
  <2> SUFFICES ASSUME NEW k \in ClientKey, pendingSends'[k] # NoSend
               PROVE  /\ phase'[pendingSends'[k]] \in Working
                      /\ KeyOf[pendingSends'[k]] = k
    OBVIOUS
  <2>1. pendingSends'[k] = pendingSends[k] /\ KeyOf[s] # k
    BY SendAssumption DEF Forget, Inv, TypeOK
  <2>2. /\ pendingSends[k] \in Send
        /\ phase[pendingSends[k]] \in Working
        /\ KeyOf[pendingSends[k]] = k
    BY <2>1 DEF Inv, TypeOK, PendingIsRunning
  <2>3. pendingSends[k] \notin Settled(s)
    BY <2>1, <2>2, SettledFacts DEF Working
  <2> QED
    BY <2>1, <2>2, <2>3
<1>6. \A t \in Send : phase'[t] \in Working /\ KeyOf[t] # NoKey =>
          pendingSends'[KeyOf[t]] = t
  BY <1>3, <1>4 DEF Inv, PendingIsRunning
<1>7. \A t \in Send : phase'[t] = "waiting" =>
          /\ KeyOf[t] # NoKey
          /\ pendingSends'[KeyOf[t]] = leader'[t]
          /\ leader'[t] # NoSend
  BY <1>3, <1>4 DEF Inv, PendingIsRunning
<1> QED
  BY <1>1, <1>2, <1>5, <1>6, <1>7 DEF PendingIsRunning

LEMMA RejectInv ==
    ASSUME Inv, NEW s \in Send, phase[s] \in Working, Reject(s)
    PROVE  Inv'
<1>1. /\ phase' \in [Send -> Phase]
      /\ pendingSends' \in [ClientKey -> Send \cup {NoSend}]
      /\ PendingIsRunning'
  BY SettleKeepsPending DEF Reject
<1>2. UNCHANGED <<leader, messages, answer, broadcasts>>
  BY DEF Reject
<1>3. \A t \in Send : phase'[t] = phase[t] \/ phase'[t] = "failed"
  BY DEF Reject
<1>4. \A t \in Send : Stored(t)' = Stored(t)
  BY <1>2 DEF Stored
<1>5. Unanswered'
  BY <1>2, SettledFacts DEF Reject, Inv, Unanswered, Working
<1> QED
  BY <1>1, <1>2, <1>3, <1>4, <1>5
  DEF Inv, TypeOK, Progress, Before, LookupHolds, OneMessagePerKey,
      BroadcastIsDurable

LEMMA ResolveInv ==
    ASSUME Inv, NEW s \in Send, NEW m \in Send, phase[s] \in Working,
           Resolve(s, m), UNCHANGED <<leader, messages, broadcasts>>
    PROVE  Inv'
<1>1. /\ phase' \in [Send -> Phase]
      /\ pendingSends' \in [ClientKey -> Send \cup {NoSend}]
      /\ PendingIsRunning'
  BY SettleKeepsPending DEF Resolve
<1>2. answer' \in [Send -> Send \cup {NoSend}]
  BY DEF Resolve, Inv, TypeOK
<1>3. \A t \in Send : phase'[t] = phase[t] \/ phase'[t] = "done"
  BY DEF Resolve
<1>4. \A t \in Send : Stored(t)' = Stored(t)
  BY DEF Stored
<1>5. Unanswered'
  BY DEF Resolve, Inv, Unanswered
<1> QED
  BY <1>1, <1>2, <1>3, <1>4, <1>5
  DEF Inv, TypeOK, Progress, Before, LookupHolds, OneMessagePerKey,
      BroadcastIsDurable

LEMMA SubmitInv ==
    ASSUME Inv, NEW s \in Send, Submit(s)
    PROVE  Inv'
<1>1. /\ UNCHANGED <<messages, answer, broadcasts>>
      /\ phase[s] = "idle"
      /\ phase'[s] \in {"access", "waiting"}
      /\ \A t \in Send \ {s} : phase'[t] = phase[t] /\ leader'[t] = leader[t]
  BY DEF Submit, SubmitPlain, SubmitFirst, SubmitRetry, Inv, TypeOK
<1>2. TypeOK'
  BY SendAssumption DEF Submit, SubmitPlain, SubmitFirst, SubmitRetry, Inv,
                        TypeOK, Phase, Working
<1>3. PendingIsRunning'
  <2>1. CASE SubmitPlain(s)
    BY <2>1 DEF SubmitPlain, Inv, TypeOK, PendingIsRunning, Working
  <2>2. CASE SubmitFirst(s)
    <3>1. /\ KeyOf[s] \in ClientKey /\ pendingSends[KeyOf[s]] = NoSend
          /\ pendingSends'[KeyOf[s]] = s /\ UNCHANGED leader
          /\ phase'[s] = "access"
          /\ \A k \in ClientKey \ {KeyOf[s]} : pendingSends'[k] = pendingSends[k]
      BY <2>2, SendAssumption DEF SubmitFirst, Inv, TypeOK
    <3>2. \A t \in Send : phase[t] \in Working \cup {"waiting"}
              => KeyOf[t] # KeyOf[s]
      BY <3>1, SendAssumption DEF Inv, PendingIsRunning, Working
    <3>3. \A k \in ClientKey : pendingSends'[k] # NoSend =>
              /\ phase'[pendingSends'[k]] \in Working
              /\ KeyOf[pendingSends'[k]] = k
      BY <1>1, <3>1 DEF Inv, TypeOK, PendingIsRunning, Working
    <3>4. \A t \in Send : phase'[t] \in Working /\ KeyOf[t] # NoKey =>
              pendingSends'[KeyOf[t]] = t
      BY <1>1, <3>1, <3>2, SendAssumption DEF Inv, PendingIsRunning
    <3>5. \A t \in Send : phase'[t] = "waiting" =>
              /\ KeyOf[t] # NoKey
              /\ pendingSends'[KeyOf[t]] = leader'[t]
              /\ leader'[t] # NoSend
      BY <1>1, <3>1, <3>2, SendAssumption DEF Inv, PendingIsRunning
    <3> QED
      BY <3>3, <3>4, <3>5 DEF PendingIsRunning
  <2>3. CASE SubmitRetry(s)
    <3>1. /\ KeyOf[s] \in ClientKey
          /\ pendingSends[KeyOf[s]] # NoSend
          /\ leader'[s] = pendingSends[KeyOf[s]] /\ UNCHANGED pendingSends
          /\ phase'[s] = "waiting"
      BY <2>3, SendAssumption DEF SubmitRetry, Inv, TypeOK
    <3>2. \A k \in ClientKey : pendingSends'[k] # NoSend =>
              /\ phase'[pendingSends'[k]] \in Working
              /\ KeyOf[pendingSends'[k]] = k
      BY <1>1, <3>1 DEF Inv, TypeOK, PendingIsRunning, Working
    <3>3. \A t \in Send : phase'[t] \in Working /\ KeyOf[t] # NoKey =>
              pendingSends'[KeyOf[t]] = t
      BY <1>1, <3>1 DEF Inv, PendingIsRunning, Working
    <3>4. \A t \in Send : phase'[t] = "waiting" =>
              /\ KeyOf[t] # NoKey
              /\ pendingSends'[KeyOf[t]] = leader'[t]
              /\ leader'[t] # NoSend
      BY <1>1, <3>1, SendAssumption DEF Inv, PendingIsRunning
    <3> QED
      BY <3>2, <3>3, <3>4 DEF PendingIsRunning
  <2> QED
    BY <2>1, <2>2, <2>3 DEF Submit
<1>4. \A t \in Send : Stored(t)' = Stored(t)
  BY <1>1 DEF Stored
<1>5. Progress' /\ BroadcastIsDurable' /\ OneMessagePerKey'
  BY <1>1 DEF Inv, Progress, Before, BroadcastIsDurable, OneMessagePerKey
<1>6. LookupHolds' /\ Unanswered'
  BY <1>1, <1>4 DEF Inv, LookupHolds, Unanswered
<1> QED
  BY <1>2, <1>3, <1>5, <1>6 DEF Inv

(* A step of persistMessage that settles nothing. *)
Advance(s) ==
    AccessGranted(s) \/ LookupEmpty(s) \/ Create(s) \/ Publish(s)

LEMMA AdvanceInv ==
    ASSUME Inv, NEW s \in Send, Advance(s)
    PROVE  Inv'
<1>1. /\ UNCHANGED <<pendingSends, leader, answer>>
      /\ phase[s] \in Working /\ phase'[s] \in Working
      /\ \A t \in Send \ {s} : phase'[t] = phase[t]
  BY DEF Advance, AccessGranted, LookupEmpty, Create, Publish, Inv, TypeOK,
         Working
<1>2. PendingIsRunning'
  <2>1. \A k \in ClientKey : pendingSends'[k] # NoSend =>
            /\ phase'[pendingSends'[k]] \in Working
            /\ KeyOf[pendingSends'[k]] = k
    BY <1>1 DEF Inv, TypeOK, PendingIsRunning
  <2>2. \A t \in Send : phase'[t] = "waiting" => phase[t] = "waiting"
    BY <1>1 DEF Working
  <2>3. \A t \in Send : phase'[t] \in Working => phase[t] \in Working
    BY <1>1
  <2> QED
    BY <1>1, <2>1, <2>2, <2>3 DEF Inv, PendingIsRunning
<1>3. Unanswered'
  BY <1>1 DEF Inv, Unanswered, Working
<1>4. CASE AccessGranted(s) \/ LookupEmpty(s)
  <2>1. /\ UNCHANGED <<messages, broadcasts>>
        /\ phase[s] \in {"access", "lookup"}
        /\ phase' \in [Send -> Phase] /\ phase'[s] \in {"lookup", "create"}
    BY <1>4 DEF AccessGranted, LookupEmpty, Inv, TypeOK, Phase, Working
  <2>2. \A t \in Send : Stored(t)' = Stored(t)
    BY <2>1 DEF Stored
  <2>3. phase'[s] = "create" => Stored(s) = {}
    BY <1>4 DEF AccessGranted, LookupEmpty, Inv, TypeOK, Stored, SameMessage,
                Progress, Before
  <2>4. LookupHolds'
    BY <1>1, <2>2, <2>3 DEF Inv, LookupHolds
  <2> QED
    BY <1>1, <1>2, <1>3, <2>1, <2>4
    DEF Inv, TypeOK, Progress, Before, OneMessagePerKey, BroadcastIsDurable
<1>5. CASE Create(s)
  <2>1. /\ phase[s] = "create" /\ phase'[s] = "stored"
        /\ phase' \in [Send -> Phase]
        /\ messages' = messages \cup {s} /\ UNCHANGED broadcasts
    BY <1>5 DEF Create, Inv, TypeOK, Phase, Working
  <2>2. Stored(s) = {}
    BY <2>1 DEF Inv, LookupHolds
  <2>3. OneMessagePerKey'
    BY <2>1, <2>2 DEF Inv, OneMessagePerKey, Stored, SameMessage
  <2>4. LookupHolds'
    <3> SUFFICES ASSUME NEW t \in Send, phase'[t] = "create"
                 PROVE  Stored(t)' = {}
      BY DEF LookupHolds
    <3>1. t # s /\ phase[t] = "create"
      BY <1>1, <2>1
    <3>2. ~SameMessage(t, s)
      BY <2>1, <3>1, OneRunning DEF Inv, SameMessage, Working
    <3> QED
      BY <2>1, <3>1, <3>2 DEF Inv, LookupHolds, Stored, SameMessage
  <2> QED
    BY <1>1, <1>2, <1>3, <2>1, <2>3, <2>4
    DEF Inv, TypeOK, Progress, Before, BroadcastIsDurable
<1>6. CASE Publish(s)
  <2>1. /\ phase[s] = "stored" /\ phase'[s] = "touch"
        /\ phase' \in [Send -> Phase]
        /\ broadcasts[s] = 0 /\ broadcasts'[s] = 1
        /\ \A t \in Send \ {s} : broadcasts'[t] = broadcasts[t]
        /\ UNCHANGED messages
    BY <1>6 DEF Publish, Inv, TypeOK, Phase, Working, Progress, Before
  <2>2. broadcasts' \in [Send -> 0..1]
    BY <1>6, <2>1 DEF Publish, Inv, TypeOK
  <2>3. \A t \in Send : Stored(t)' = Stored(t)
    BY <2>1 DEF Stored
  <2> QED
    BY <1>1, <1>2, <1>3, <2>1, <2>2, <2>3
    DEF Inv, TypeOK, Progress, Before, LookupHolds, OneMessagePerKey,
        BroadcastIsDurable
<1> QED
  BY <1>4, <1>5, <1>6 DEF Advance

LEMMA CrashInv == Inv /\ Crash => Inv'
<1> SUFFICES ASSUME Inv, Crash PROVE Inv'
  OBVIOUS
<1>1. /\ UNCHANGED <<leader, messages, answer, broadcasts>>
      /\ \A t \in Send : phase'[t] \notin Working \cup {"waiting"}
      /\ \A t \in Send : phase'[t] = phase[t]
                         \/ (phase'[t] = "lost" /\ phase[t] # "done")
      /\ phase' \in [Send -> Phase]
      /\ pendingSends' = [k \in ClientKey |-> NoSend]
  BY DEF Crash, Inv, TypeOK, Phase, Working
<1>2. \A t \in Send : Stored(t)' = Stored(t)
  BY <1>1 DEF Stored
<1> QED
  BY <1>1, <1>2
  DEF Inv, TypeOK, Progress, Before, PendingIsRunning, LookupHolds,
      OneMessagePerKey, BroadcastIsDurable, Unanswered, Working

LEMMA PersistCases ==
    ASSUME NEW s \in Send, Persist(s), Inv
    PROVE  \/ Advance(s)
           \/ phase[s] \in Working /\ Reject(s)
           \/ /\ phase[s] \in Working
              /\ UNCHANGED <<leader, messages, broadcasts>>
              /\ \E m \in Stored(s) : m \in Send /\ Resolve(s, m)
BY DEF Persist, Advance, AccessDenied, LookupFound, Touch, DatabaseFails,
       Working, Inv, Progress, Stored, SameMessage

LEMMA NextInv == Inv /\ [Next]_vars => Inv'
<1> SUFFICES ASSUME Inv, [Next]_vars PROVE Inv'
  OBVIOUS
<1>1. CASE UNCHANGED vars
  BY <1>1 DEF vars, Inv, TypeOK, Progress, PendingIsRunning, LookupHolds,
              Stored, OneMessagePerKey, BroadcastIsDurable, Unanswered
<1>2. ASSUME NEW s \in Send, Submit(s) PROVE Inv'
  BY <1>2, SubmitInv
<1>3. ASSUME NEW s \in Send, Persist(s) PROVE Inv'
  BY <1>3, PersistCases, AdvanceInv, RejectInv, ResolveInv
<1>4. CASE Crash
  BY <1>4, CrashInv
<1> QED
  BY <1>1, <1>2, <1>3, <1>4 DEF Next

LEMMA InvHolds == Spec => []Inv
BY InitInv, NextInv, PTL DEF Spec

(* Every variable keeps its type; a message is published at most once. *)
THEOREM TypeCorrect == Spec => []TypeOK
BY InvHolds, PTL DEF Inv

(* For any number of retries, failures and crashes of the one process, a   *)
(* client message id is stored once.                                       *)
THEOREM StoredOnce == Spec => []OneMessagePerKey
BY InvHolds, PTL DEF Inv

(* The pending map holds exactly the running sends, and every waiting      *)
(* retry waits for one of them.                                            *)
THEOREM PendingInStep == Spec => []PendingIsRunning
BY InvHolds, PTL DEF Inv

(* Nothing is published before it is stored. *)
THEOREM DurableFirst == Spec => []BroadcastIsDurable
BY InvHolds, PTL DEF Inv

-----------------------------------------------------------------------------
(* Refinement: Create is the abstract Store, settling a promise with a     *)
(* message is the abstract Answer, and everything else is a stutter.       *)

LEMMA InitRefines == Init => Abstract!Init
BY DEF Init, Abstract!Init

LEMMA CreateRefines ==
    ASSUME Inv, NEW s \in Send, Create(s)
    PROVE  Abstract!Store(s)
<1>1. Stored(s) = {}
  BY DEF Create, Inv, LookupHolds
<1> QED
  BY <1>1 DEF Create, Abstract!Store, Abstract!SameMessage, Stored, SameMessage

LEMMA ResolveRefines ==
    ASSUME Inv, NEW s \in Send, NEW m \in Stored(s), phase[s] \in Working,
           Resolve(s, m), UNCHANGED messages
    PROVE  Abstract!Answer(Settled(s), m)
<1>1. \A w \in Settled(s) : answer[w] = NoSend
  BY SettledFacts DEF Inv, Unanswered, Working
<1>2. ASSUME NEW w \in Settled(s) PROVE Abstract!SameMessage(w, m)
  <2>1. w = s \/ (KeyOf[w] = KeyOf[s] /\ KeyOf[s] # NoKey)
    BY <1>2, SettledFacts
  <2>2. s = m \/ (KeyOf[s] # NoKey /\ KeyOf[s] = KeyOf[m])
    BY DEF Stored, SameMessage
  <2> QED
    BY <2>1, <2>2 DEF Abstract!SameMessage
<1> QED
  BY <1>1, <1>2 DEF Abstract!Answer, Resolve, Stored

LEMMA NextRefines ==
    Inv /\ [Next]_vars => [Abstract!Next]_<<messages, answer>>
<1> SUFFICES ASSUME Inv, [Next]_vars
             PROVE  [Abstract!Next]_<<messages, answer>>
  OBVIOUS
<1>1. CASE UNCHANGED vars \/ Crash
  BY <1>1 DEF vars, Crash
<1>2. ASSUME NEW s \in Send, Submit(s) PROVE UNCHANGED <<messages, answer>>
  BY <1>2 DEF Submit, SubmitPlain, SubmitFirst, SubmitRetry
<1>3. ASSUME NEW s \in Send, Persist(s)
      PROVE  [Abstract!Next]_<<messages, answer>>
  <2>1. CASE Create(s)
    BY <2>1, CreateRefines DEF Abstract!Next
  <2>2. CASE AccessGranted(s) \/ LookupEmpty(s) \/ Publish(s)
    BY <2>2 DEF AccessGranted, LookupEmpty, Publish
  <2>3. CASE Reject(s)
    BY <2>3 DEF Reject
  <2>4. ASSUME phase[s] \in Working, NEW m \in Stored(s), m \in Send,
               Resolve(s, m), UNCHANGED messages
        PROVE  Abstract!Next
    <3>1. Abstract!Answer(Settled(s), m)
      BY <2>4, ResolveRefines
    <3>2. Settled(s) \in SUBSET Send
      BY DEF Settled
    <3> QED
      BY <2>4, <3>1, <3>2 DEF Abstract!Next
  <2> QED
    BY <1>3, <2>1, <2>2, <2>3, <2>4, PersistCases DEF Advance
<1> QED
  BY <1>1, <1>2, <1>3 DEF Next

(* sendMessage implements the idempotent send: each of its steps stores a  *)
(* new message, answers sends with a stored one, or changes neither.       *)
THEOREM SendIsIdempotent == Spec => IsIdempotent
<1>1. Init => Abstract!Init
  BY InitRefines
<1>2. Inv /\ [Next]_vars => [Abstract!Next]_<<messages, answer>>
  BY NextRefines
<1> QED
  BY <1>1, <1>2, InvHolds, PTL DEF Spec, IsIdempotent, Abstract!Spec
=============================================================================
