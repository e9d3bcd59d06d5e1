----------------------------- MODULE AccessAudit -----------------------------
(***************************************************************************)
(* DB with a history variable that audits the verdicts of checkAccess, the *)
(* acknowledgements of addAccess and the listings of allGrant.  They read  *)
(* the visibility of a list in one query and read or write the Access      *)
(* relationships in the next, so another thread may change either in       *)
(* between.  The two facts that justify an answer may therefore be facts   *)
(* of two different instants of the call: a list that is closed after the  *)
(* first query may be granted or revoked on before the second, and no      *)
(* instant need have seen both.                                            *)
(***************************************************************************)
EXTENDS DB

VARIABLE since   \* since[t]: what has been true of the list t asks about, at
                 \* some instant since t's call began
auditVars == <<vars, since>>

(* The visibility of a list (None: no such list) and what d may do with it *)
(* if it is shared ("none": nothing), read off the graph and not through   *)
(* the helpers of the methods it audits.                                   *)
Held(d, l) ==
    LET granted == {e[3] : e \in {e \in access : e[1] = d /\ e[2] = l}}
    IN  {VisibilityOf(l)} \union IF granted = {} THEN {"none"} ELSE granted

Audited(c) == c.method \in {"checkAccess", "addAccess", "allGrant"}

AuditInit == Init /\ since = [t \in Thread |-> {}]

Observe ==
    since' = [t \in Thread |->
                IF ~Audited(call'[t]) THEN {}
                ELSE since[t] \union Held(call[t].dst, Key(call[t]))']

(* Next, observed. *)
AuditNext ==
    \/ \E t \in Thread, r \in Requests : Begin(t, r) /\ Observe
    \/ \E t \in Thread : (Query(t) \/ QueryFails(t)) /\ Observe
    \/ Crash /\ Observe

AuditSpec == AuditInit /\ [][AuditNext]_auditVars

-----------------------------------------------------------------------------
Answers(t, m, code) == /\ call[t].method = m /\ step'[t] = 0 /\ ret'[t] = code

(* checkAccess never gives another user a permission nobody gave: the list *)
(* was public at some instant of the call, or it was shared at one and the *)
(* relationship carried exactly the permission returned at one (not        *)
(* necessarily the same).  It refuses access only if at some instant of    *)
(* the call the list was private, or nothing was granted.                  *)
VerdictHadGround ==
    [][\A t \in Thread :
        /\ Answers(t, "checkAccess", "SUCCESS") =>
              \/ "public" \in since[t]
              \/ "shared" \in since[t] /\ out'[t] \subseteq Row(since[t])
        /\ Answers(t, "checkAccess", "ERR_ACCESS") =>
              since[t] \intersect {"private", "none"} # {}]_auditVars

(* addAccess reports SUCCESS only for a list that was open to sharing at   *)
(* some instant of the call, and the permission then holds unless a node   *)
(* was deleted under it (its MERGE matches nothing and nobody looks).      *)
GrantHadGround ==
    [][\A t \in Thread : Answers(t, "addAccess", "SUCCESS") =>
        /\ since[t] \intersect {"shared", "public"} # {}
        /\ \/ <<call[t].dst, Key(call[t]), call[t].perm>> \in access'
           \/ user[call[t].dst] = None \/ list[Key(call[t])] = None]_auditVars

(* allGrant shows the permissions on a list only if it was shared at some  *)
(* instant of the call: those that lie dormant while it is private or      *)
(* public are hidden.  And it shows nobody only if the list was not shared *)
(* at some instant of the call, or there is nobody to show.                *)
ListingHadGround ==
    [][\A t \in Thread : Answers(t, "allGrant", "SUCCESS") =>
        /\ out'[t] # {} => "shared" \in since[t]
        /\ out'[t] = {} => \/ since[t] \intersect {"private", "public"} # {}
                          \/ \A e \in access : e[2] # Key(call[t])]_auditVars
=============================================================================
