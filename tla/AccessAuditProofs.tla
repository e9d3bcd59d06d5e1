-------------------------- MODULE AccessAuditProofs --------------------------
(***************************************************************************)
(* Proofs about AccessAudit: each of the facts that justify an answer of   *)
(* checkAccess, addAccess or allGrant was true at some instant of the      *)
(* call, although each of these methods looks at the list in one query and *)
(* at its permissions in the next.                                         *)
(***************************************************************************)
EXTENDS AccessAudit, DBProofs

(* The invariant.  A call that is audited has seen how its list stands,    *)
(* and before its last query it has seen the list open to sharing: no      *)
(* query goes on to that one without it.                                   *)
Ground(t) ==
    /\ step[t] = 0 => ~Audited(call[t])
    /\ Audited(call[t]) => Held(call[t].dst, Key(call[t])) \subseteq since[t]
    /\ At(t, "checkAccess", 4) => "shared" \in since[t]
    /\ At(t, "addAccess", 4)   => since[t] \intersect {"shared", "public"} # {}
    /\ At(t, "allGrant", 3)    => "shared" \in since[t]

AccessInv == DOMAIN since = Thread /\ \A t \in Thread : Ground(t)

(* What is held of a list, in the words of the methods.                    *)
LEMMA HeldIs ==
    ASSUME GraphTypeOK, NEW d, NEW l
    PROVE  Held(d, l) = {VisibilityOf(l)} \union
                           IF Granted(d, l) = {} THEN {"none"} ELSE Granted(d, l)
<1> DEFINE granted == {e[3] : e \in {e \in access : e[1] = d /\ e[2] = l}}
<1>1. granted = Granted(d, l)
  <2>1. ASSUME NEW p \in granted PROVE p \in Granted(d, l)
    <3>1. PICK e \in access : e[1] = d /\ e[2] = l /\ p = e[3]
      OBVIOUS
    <3>2. e = <<d, l, p>> /\ p \in Perm
      BY <3>1 DEF GraphTypeOK
    <3> QED
      BY <3>1, <3>2 DEF Granted
  <2>2. ASSUME NEW p \in Granted(d, l) PROVE p \in granted
    <3>1. <<d, l, p>> \in access
      BY DEF Granted
    <3> QED
      BY <3>1
  <2> QED
    BY <2>1, <2>2
<1> QED
  BY <1>1 DEF Held

(* The list an audited call is about.                                      *)
LEMMA AuditedList ==
    ASSUME TypeOK, NEW t \in Thread
    PROVE  /\ Key(call[t]) \in ListKey /\ call[t].dst \in UserKey
           /\ VisibilityOf(Key(call[t])) \in Visibility \union {None}
<1>1. Key(call[t]) \in ListKey /\ call[t].dst \in UserKey
  BY CallFields DEF TypeOK, Request, Key, ListKey
<1> QED
  BY <1>1 DEF VisibilityOf, TypeOK, GraphTypeOK, ListNode

(* The history of a call grows with it, and with what its list becomes.    *)
LEMMA SinceGrows ==
    ASSUME Observe, NEW t \in Thread, Audited(call[t])'
    PROVE  /\ since[t] \subseteq since'[t]
           /\ Held(call[t].dst, Key(call[t]))' \subseteq since'[t]
<1>1. since'[t] = since[t] \union Held(call[t].dst, Key(call[t]))'
  BY DEF Observe, Audited
<1> QED
  BY <1>1

(* A thread that does not take the step keeps its ground.                  *)
LEMMA OthersGround ==
    ASSUME Observe, NEW t \in Thread, Ground(t),
           call'[t] = call[t], step'[t] = step[t]
    PROVE  Ground(t)'
<1>1. Audited(call[t])' <=> Audited(call[t])
  OBVIOUS
<1>2. CASE Audited(call[t])
  BY <1>1, <1>2, SinceGrows DEF Ground, At
<1>3. CASE ~Audited(call[t])
  BY <1>1, <1>3 DEF Ground, At, Audited
<1> QED
  BY <1>2, <1>3

(* A method that returns or begins has nothing to show yet.                *)
LEMMA FreshGround ==
    ASSUME Observe, NEW t \in Thread,
           \/ step'[t] = 0 /\ call'[t].method = "none"
           \/ step'[t] \in {1, 2}
           \/ step'[t] = 3 /\ call'[t].method # "allGrant"
    PROVE  Ground(t)'
BY SinceGrows DEF Ground, At, Audited

(* The method of an audited call tells which query runs.                   *)
LEMMA AuditedQuery ==
    ASSUME NEW t \in Thread, Query(t)
    PROVE  /\ call[t].method = "checkAccess" => checkAccess(t)
           /\ call[t].method = "addAccess" => addAccess(t)
           /\ call[t].method = "allGrant" => allGrant(t)
<1>1. call[t].method = "allGrant" => allGrant(t)
  <2>1. call[t].method = "allGrant" => Reads(t)
    BY QueryOf
  <2> QED
    BY <2>1 DEF Reads, At, getUserNode, getTaskListNode, getTaskNode, getAllUserNodes,
       getAllTaskListNodes, getAllTaskNodes, checkAccess, allAccess, getAllPublic
<1> QED
  BY <1>1, QueryOf

(* The second query of allGrant goes on only if the list is shared.        *)
LEMMA SecondQuery ==
    ASSUME TypeOK, NEW t \in Thread, allGrant(t), Ground(t), Observe,
           step[t] = 2, step'[t] # 0
    PROVE  Ground(t)'
<1> DEFINE l == Key(call[t])
<1>1. /\ VisibilityOf(l) = "shared"
      /\ call'[t] = call[t] /\ step'[t] = 3
  BY AuditedList, NoneAssumption
     DEF allGrant, At, Return, Reply, Advance, TypeOK, CallTypeOK, Visibility
<1>2. Audited(call[t])
  BY DEF allGrant, At, Audited
<1>3. VisibilityOf(l) \in since[t]
  BY <1>2 DEF Ground, Held
<1> QED
  BY <1>1, <1>2, <1>3, SinceGrows DEF Ground, At

(* The third query of checkAccess goes on only if the list is shared, that *)
(* of addAccess only if it is not private, and that of allGrant is its     *)
(* last.                                                                   *)
LEMMA ThirdQuery ==
    ASSUME TypeOK, NEW t \in Thread, Query(t), Ground(t), Observe,
           Audited(call[t]), step[t] = 3, step'[t] # 0
    PROVE  Ground(t)'
<1> DEFINE l == Key(call[t])
<1>1. call'[t] = call[t] /\ step'[t] = 4
  BY QueryApart
<1>2. checkAccess(t) \/ addAccess(t)
  <2>1. ASSUME allGrant(t) PROVE FALSE
    BY <2>1 DEF allGrant, At, List, Reply, TypeOK, CallTypeOK
  <2> QED
    BY <2>1, AuditedQuery DEF Audited
<1>3. call[t].method = "checkAccess" => VisibilityOf(l) = "shared"
  BY <1>1, <1>2, AuditedList, NoneAssumption
     DEF checkAccess, addAccess, At, Return, Reply, TypeOK, CallTypeOK, Visibility
<1>4. call[t].method = "addAccess" => VisibilityOf(l) \in {"shared", "public"}
  BY <1>1, <1>2, AuditedList, NoneAssumption
     DEF checkAccess, addAccess, At, Return, Reply, TypeOK, CallTypeOK, Visibility
<1>5. VisibilityOf(l) \in since[t]
  BY DEF Ground, Held
<1>6. Audited(call[t])'
  BY <1>1
<1> QED
  BY <1>1, <1>3, <1>4, <1>5, <1>6, SinceGrows DEF Ground, At

(* The thread that runs a query.                                           *)
LEMMA QueryGround ==
    ASSUME TypeOK, NEW t \in Thread, Query(t), Ground(t), Observe
    PROVE  Ground(t)'
<1>1. /\ step[t] \in 1..4
      /\ \/ \E code, rows : Reply(t, code, rows)
         \/ Advance(t)
  BY QueryProgress DEF TypeOK, CallTypeOK
<1>2. CASE \E code, rows : Reply(t, code, rows)
  BY <1>2, FreshGround DEF Reply, Blank, TypeOK, CallTypeOK
<1>3. CASE Advance(t)
  <2>1. call'[t] = call[t] /\ step'[t] = step[t] + 1
    BY <1>3 DEF Advance, TypeOK, CallTypeOK
  <2>2. CASE step[t] = 1 \/ (step[t] = 2 /\ call[t].method # "allGrant")
    BY <2>1, <2>2, FreshGround
  <2>3. CASE step[t] = 2 /\ call[t].method = "allGrant"
    BY <2>1, <2>3, AuditedQuery, SecondQuery
  <2>4. CASE step[t] \in {3, 4} /\ ~Audited(call[t])
    BY <2>1, <2>4 DEF Ground, Audited, At
  <2>5. CASE step[t] = 3 /\ Audited(call[t])
    BY <2>1, <2>5, ThirdQuery
  <2>6. CASE step[t] = 4 /\ Audited(call[t])
    <3>1. checkAccess(t) \/ addAccess(t) \/ allGrant(t)
      BY <2>6, AuditedQuery DEF Audited
    <3> QED
      BY <2>1, <2>6, <3>1
         DEF checkAccess, addAccess, allGrant, At, Finish, Return, Reply,
             TypeOK, CallTypeOK
  <2> QED
    BY <1>1, <2>2, <2>3, <2>4, <2>5, <2>6
<1> QED
  BY <1>1, <1>2, <1>3

(* The audit adds no behaviour to DB.                                      *)
LEMMA AuditKeepsDB == AuditSpec => Spec
<1>1. AuditInit => Init
  BY DEF AuditInit
<1>2. [AuditNext]_auditVars => [Next]_vars
  BY DEF AuditNext, Next, auditVars
<1> QED
  BY <1>1, <1>2, PTL DEF AuditSpec, Spec

(* The invariant holds in every state.                                     *)
LEMMA AlwaysGrounded == AuditSpec => [](TypeOK /\ AccessInv)
<1>1. AuditInit => AccessInv
  BY DEF AuditInit, Init, AccessInv, Ground, Audited, At, Blank
<1>2. TypeOK /\ AccessInv /\ [AuditNext]_auditVars => AccessInv'
  <2> SUFFICES ASSUME TypeOK, AccessInv, [AuditNext]_auditVars PROVE AccessInv'
    OBVIOUS
  <2>1. ASSUME Observe, NEW t \in Thread, Apart(t), Ground(t)' PROVE AccessInv'
    <3>1. \A s \in Thread \ {t} : Ground(s)'
      BY <2>1, OthersGround DEF AccessInv, Apart
    <3> QED
      BY <2>1, <3>1 DEF AccessInv, Observe
  <2>2. ASSUME NEW t \in Thread, NEW r \in Requests, Begin(t, r), Observe
        PROVE  AccessInv'
    <3>1. \/ call'[t] = call[t] /\ step'[t] = step[t]
          \/ step'[t] = 1
      BY <2>2 DEF Begin, TypeOK, CallTypeOK
    <3>2. Ground(t)'
      BY <2>2, <3>1, OthersGround, FreshGround DEF AccessInv
    <3> QED
      BY <2>1, <2>2, <3>2, BeginApart
  <2>3. ASSUME NEW t \in Thread, Query(t), Observe PROVE AccessInv'
    BY <2>1, <2>3, QueryApart, QueryGround DEF AccessInv
  <2>4. ASSUME NEW t \in Thread, QueryFails(t), Observe PROVE AccessInv'
    <3>1. step'[t] = 0 /\ call'[t].method = "none"
      BY <2>4 DEF QueryFails, Return, Reply, Blank, TypeOK, CallTypeOK
    <3> QED
      BY <2>1, <2>4, <3>1, FailsApart, FreshGround
  <2>5. CASE Crash /\ Observe
    <3>1. \A t \in Thread : step'[t] = 0 /\ call'[t].method = "none"
      BY <2>5 DEF Crash, Blank
    <3> QED
      BY <2>5, <3>1, FreshGround DEF AccessInv, Observe
  <2>6. CASE UNCHANGED auditVars
    BY <2>6 DEF auditVars, vars, AccessInv, Ground, At, Held, VisibilityOf
  <2> QED
    BY <2>2, <2>3, <2>4, <2>5, <2>6 DEF AuditNext
<1> QED
  BY <1>1, <1>2, AuditKeepsDB, TypeCorrect, PTL DEF AuditSpec

-----------------------------------------------------------------------------
(* Only the call's own query answers it.                                   *)
LEMMA AnswerIsQuery ==
    ASSUME TypeOK, AccessInv, [AuditNext]_auditVars, NEW t \in Thread,
           NEW code \in {"SUCCESS", "ERR_ACCESS"},
           NEW m \in {"checkAccess", "addAccess", "allGrant"},
           Answers(t, m, code)
    PROVE  /\ Query(t) /\ step[t] \in 1..4
           /\ Held(call[t].dst, Key(call[t])) \subseteq since[t]
           /\ m = "checkAccess" => checkAccess(t)
           /\ m = "addAccess" => addAccess(t)
           /\ m = "allGrant" => allGrant(t)
<1>1. Audited(call[t]) /\ step[t] # 0 /\ step'[t] = 0 /\ ret'[t] = code
  BY DEF Answers, Audited, AccessInv, Ground
<1>2. ASSUME NEW s \in Thread, NEW r \in Requests, Begin(s, r) PROVE FALSE
  <2>1. s # t
    BY <1>1, <1>2 DEF Begin
  <2> QED
    BY <1>1, <1>2, <2>1, BeginApart DEF Apart
<1>3. ASSUME NEW s \in Thread, Query(s) PROVE s = t
  BY <1>1, <1>3, QueryApart DEF Apart
<1>4. ASSUME NEW s \in Thread, QueryFails(s) PROVE FALSE
  BY <1>1, <1>4, FailsApart DEF Apart
<1>5. ~Crash
  BY <1>1, NoneAssumption DEF Crash, Code
<1>6. ~UNCHANGED auditVars
  BY <1>1 DEF auditVars, vars
<1>7. Query(t)
  BY <1>2, <1>3, <1>4, <1>5, <1>6 DEF AuditNext
<1> QED
  BY <1>1, <1>7, AuditedQuery DEF AccessInv, Ground, Answers, TypeOK, CallTypeOK

(* Whatever becomes of the list and of its permissions between the two     *)
(* queries of checkAccess that decide, a permission it returns was that of *)
(* the user at some instant of the call and the list was shared at one     *)
(* (not necessarily the same), or the list was public at one; and it       *)
(* refuses access only with a reason of such an instant.                   *)
THEOREM VerdictsHadGround == AuditSpec => VerdictHadGround
<1> DEFINE Verdict(t) ==
             /\ Answers(t, "checkAccess", "SUCCESS") =>
                   \/ "public" \in since[t]
                   \/ "shared" \in since[t] /\ out'[t] \subseteq Row(since[t])
             /\ Answers(t, "checkAccess", "ERR_ACCESS") =>
                   since[t] \intersect {"private", "none"} # {}
<1>1. TypeOK /\ AccessInv /\ [AuditNext]_auditVars => \A t \in Thread : Verdict(t)
  <2> SUFFICES ASSUME TypeOK, AccessInv, [AuditNext]_auditVars, NEW t \in Thread,
                      NEW code \in {"SUCCESS", "ERR_ACCESS"},
                      Answers(t, "checkAccess", code)
               PROVE  Verdict(t)
    OBVIOUS
  <2> DEFINE l == Key(call[t])
             d == call[t].dst
  <2>1. /\ checkAccess(t) /\ step[t] \in 1..4 /\ Held(d, l) \subseteq since[t]
        /\ step'[t] = 0 /\ ret'[t] = code
    BY AnswerIsQuery DEF Answers
  <2>2. /\ VisibilityOf(l) \in since[t]
        /\ Granted(d, l) = {} => "none" \in since[t]
        /\ Granted(d, l) \subseteq since[t]
    <3>1. Held(d, l) = {VisibilityOf(l)} \union
                         IF Granted(d, l) = {} THEN {"none"} ELSE Granted(d, l)
      BY HeldIs DEF TypeOK
    <3> QED
      BY <2>1, <3>1
  <2>3. CASE At(t, "checkAccess", 1) \/ At(t, "checkAccess", 2)
    BY <2>1, <2>3 DEF checkAccess, At, MustExist, Return, Reply, Advance, Answers,
                      TypeOK, CallTypeOK
  <2>4. CASE At(t, "checkAccess", 3)
    BY <2>1, <2>2, <2>4, AuditedList, NoneAssumption
       DEF checkAccess, At, Return, Reply, Advance, Answers, TypeOK, CallTypeOK,
           Visibility
  <2>5. CASE At(t, "checkAccess", 4)
    <3>1. CASE Granted(d, l) = {}
      BY <2>1, <2>2, <2>5, <3>1
         DEF checkAccess, At, Return, Reply, Answers, TypeOK, CallTypeOK
    <3>2. CASE Granted(d, l) # {}
      <4>1. code = "SUCCESS" /\ out'[t] = Row(Granted(d, l))
        BY <2>1, <2>5, <3>2 DEF checkAccess, At, Reply, TypeOK, CallTypeOK
      <4>2. "shared" \in since[t]
        BY <2>5 DEF AccessInv, Ground
      <4> QED
        BY <2>2, <4>1, <4>2 DEF Row, Answers
    <3> QED
      BY <3>1, <3>2
  <2> QED
    BY <2>1, <2>3, <2>4, <2>5 DEF checkAccess
<1> QED
  BY <1>1, AlwaysGrounded, PTL DEF AuditSpec, VerdictHadGround

(* addAccess acknowledges a permission only on a list that was open to     *)
(* sharing at some instant of the call, and then the permission is there,  *)
(* unless its MERGE found no user or no list.                              *)
THEOREM GrantsHadGround == AuditSpec => GrantHadGround
<1> DEFINE Grant(t) ==
             Answers(t, "addAccess", "SUCCESS") =>
                /\ since[t] \intersect {"shared", "public"} # {}
                /\ \/ <<call[t].dst, Key(call[t]), call[t].perm>> \in access'
                   \/ user[call[t].dst] = None \/ list[Key(call[t])] = None
<1>1. TypeOK /\ AccessInv /\ [AuditNext]_auditVars => \A t \in Thread : Grant(t)
  <2> SUFFICES ASSUME TypeOK, AccessInv, [AuditNext]_auditVars, NEW t \in Thread,
                      Answers(t, "addAccess", "SUCCESS")
               PROVE  Grant(t)
    OBVIOUS
  <2>1. addAccess(t) /\ step'[t] = 0 /\ ret'[t] = "SUCCESS"
    BY AnswerIsQuery DEF Answers
  <2>2. At(t, "addAccess", 4)
    <3>1. ASSUME NEW node, MustExist(t, node) PROVE FALSE
      BY <2>1, <3>1, QueryProgress, AnswerIsQuery
         DEF MustExist, Return, Reply, Advance, Answers, TypeOK, CallTypeOK
    <3>2. ASSUME At(t, "addAccess", 3) PROVE FALSE
      BY <2>1, <3>2, AuditedList, NoneAssumption
         DEF addAccess, At, Return, Reply, Advance, TypeOK, CallTypeOK, Visibility
    <3> QED
      BY <2>1, <3>1, <3>2 DEF addAccess
  <2>3. MergeAccess(call[t].dst, Key(call[t]), call[t].perm)
    BY <2>1, <2>2 DEF addAccess, At
  <2>4. since[t] \intersect {"shared", "public"} # {}
    BY <2>2 DEF AccessInv, Ground
  <2> QED
    BY <2>3, <2>4 DEF MergeAccess
<1> QED
  BY <1>1, AlwaysGrounded, PTL DEF AuditSpec, GrantHadGround

(* Whatever becomes of the list between the two queries of allGrant, the   *)
(* permissions it shows are of a list that was shared at some instant of   *)
(* the call, and it shows nobody only with a reason.                       *)
THEOREM ListingsHadGround == AuditSpec => ListingHadGround
<1> DEFINE Listing(t) ==
             Answers(t, "allGrant", "SUCCESS") =>
                /\ out'[t] # {} => "shared" \in since[t]
                /\ out'[t] = {} => \/ since[t] \intersect {"private", "public"} # {}
                                  \/ \A e \in access : e[2] # Key(call[t])
<1>1. TypeOK /\ AccessInv /\ [AuditNext]_auditVars => \A t \in Thread : Listing(t)
  <2> SUFFICES ASSUME TypeOK, AccessInv, [AuditNext]_auditVars, NEW t \in Thread,
                      Answers(t, "allGrant", "SUCCESS")
               PROVE  Listing(t)
    OBVIOUS
  <2> DEFINE l == Key(call[t])
  <2>1. /\ allGrant(t) /\ step'[t] = 0 /\ ret'[t] = "SUCCESS"
        /\ VisibilityOf(l) \in since[t]
    BY AnswerIsQuery DEF Answers, Held
  <2>2. CASE At(t, "allGrant", 1)
    BY <2>1, <2>2 DEF allGrant, At, MustExist, Return, Reply, Advance, TypeOK, CallTypeOK
  <2>3. CASE At(t, "allGrant", 2)
    <3>1. VisibilityOf(l) # None
      BY <2>1, <2>3, NoneAssumption
         DEF allGrant, At, Return, Reply, TypeOK, CallTypeOK, Visibility
    <3>2. VisibilityOf(l) # "shared"
      BY <2>1, <2>3, NoneAssumption
         DEF allGrant, At, Return, Advance, TypeOK, CallTypeOK, Visibility
    <3>3. CASE VisibilityOf(l) \in {"private", "public"}
      <4>1. out'[t] = {}
        BY <2>1, <2>3, <3>3, NoneAssumption
           DEF allGrant, At, Return, Reply, TypeOK, CallTypeOK, Visibility
      <4> QED
        BY <2>1, <3>3, <4>1
    <3> QED
      BY <3>1, <3>2, <3>3, AuditedList DEF Visibility
  <2>4. CASE At(t, "allGrant", 3)
    <3>1. "shared" \in since[t]
      BY <2>4 DEF AccessInv, Ground
    <3>2. out'[t] = {<<e[1], e[3]>> : e \in {e \in access : e[2] = l}}
      BY <2>1, <2>4 DEF allGrant, At, List, Reply, TypeOK, CallTypeOK
    <3> QED
      BY <3>1, <3>2
  <2> QED
    BY <2>1, <2>2, <2>3, <2>4 DEF allGrant
<1> QED
  BY <1>1, AlwaysGrounded, PTL DEF AuditSpec, ListingHadGround
=============================================================================
