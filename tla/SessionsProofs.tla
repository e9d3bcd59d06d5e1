--------------------------- MODULE SessionsProofs ---------------------------
(***************************************************************************)
(* Proofs about accounts and sessions, for any number of threads, emails   *)
(* and passwords, any lifetime and any bound on the clock.                 *)
(*                                                                         *)
(* LoggedOutStaysOut is not inductive: a restart empties invalid_tokens.   *)
(* What keeps a logged-out token out is SecretGuards below: as long as the *)
(* process lives the token is in the set, afterwards it carries another    *)
(* secret.                                                                 *)
(***************************************************************************)
EXTENDS Sessions, TLAPS

(* A logged-out token of this process is in invalid_tokens, every other    *)
(* one was signed with an older secret; a thread past the decoding of a    *)
(* token holds one of this process.                                        *)
SecretGuards ==
    /\ \A x \in loggedOut : /\ x.secret <= secret
                            /\ x.secret = secret => x \in invalid
    /\ \A t \in Thread :
          req[t].kind \in {"logout", "access"} /\ step[t] \in {2, 3}
             => req[t].token.secret = secret

-----------------------------------------------------------------------------
(* The kind of a request tells what fields it has.                         *)
LEMMA Fields ==
    ASSUME NEW r \in Credentials \union Bearer(Token) \union {Idle}
    PROVE  /\ r.kind \in {"register", "login"}
                 => r.email \in Email /\ r.passwd \in Passwd
           /\ r.kind \in {"logout", "access"} => r.token \in Token
  BY DEF Credentials, Bearer, Idle

(* A login encodes a token of the right type.                              *)
LEMMA EncodedToken ==
    ASSUME TypeOK, NEW e \in Email
    PROVE  EncodeToken(e) \in Token
  <1>1. clock + Lifetime \in 0..(MaxTime + Lifetime)
    BY TimeAssumption DEF TypeOK
  <1>2. secret \in 0..MaxTime
    BY DEF TypeOK
  <1>. QED  BY <1>1, <1>2 DEF EncodeToken, Token

(* Answering and proceeding keep the types of step and reply.              *)
LEMMA ThreadTypes ==
    ASSUME TypeOK, NEW t \in Thread, NEW i \in {1, 2}, step[t] = i,
           Proceed(t) \/ Succeed(t) \/ Fail(t)
    PROVE  /\ step' \in [Thread -> 0..3]
           /\ reply' \in [Thread -> {"none", "success", "failed"}]
           /\ req' = req
  BY DEF TypeOK, Proceed, Succeed, Fail, Answer

-----------------------------------------------------------------------------
(* Every variable of the sessions keeps its type (tokens expire within the *)
(* hour after the last second, requests carry tokens that exist).          *)
THEOREM TypeCorrect == Spec => []TypeOK
<1>1. Init => TypeOK
  BY TimeAssumption DEF Init, TypeOK, Idle
<1>2. TypeOK /\ [Next]_vars => TypeOK'
  <2>. SUFFICES ASSUME TypeOK, [Next]_vars PROVE TypeOK'
    OBVIOUS
  <2>1. ASSUME NEW t \in Thread, NEW r \in Credentials \union Bearer(issued), Begin(t, r)
        PROVE  TypeOK'
    <3>1. r \in Credentials \union Bearer(Token)
      BY DEF TypeOK, Bearer
    <3>. QED  BY <2>1, <3>1 DEF Begin, TypeOK, server, clients
  <2>2. ASSUME NEW t \in Thread, UsersRegister(t) PROVE TypeOK'
    <3>1. req[t].kind = "register" /\ step[t] \in {1, 2}
      BY <2>2 DEF UsersRegister, At
    <3>2. req[t].email \in Email /\ req[t].passwd \in Passwd
      BY <3>1, Fields DEF TypeOK
    <3>3. Proceed(t) \/ Succeed(t) \/ Fail(t)
      BY <2>2 DEF UsersRegister, DuplicatedEmail, Create
    <3>4. /\ passwd' \in [Email -> Passwd \union {None}]
          /\ accounts' \subseteq Email \X Passwd
      BY <2>2, <3>2 DEF UsersRegister, Create, TypeOK
    <3>. QED  BY <2>2, <3>1, <3>3, <3>4, ThreadTypes DEF UsersRegister, TypeOK, server
  <2>3. ASSUME NEW t \in Thread, UsersLogin(t) PROVE TypeOK'
    <3>1. req[t].kind = "login" /\ step[t] \in {1, 2}
      BY <2>3 DEF UsersLogin, At
    <3>2. EncodeToken(req[t].email) \in Token
      BY <3>1, Fields, EncodedToken DEF TypeOK
    <3>3. Proceed(t) \/ Succeed(t) \/ Fail(t)
      BY <2>3 DEF UsersLogin, Validate
    <3>4. issued' \subseteq Token
      BY <2>3, <3>2 DEF UsersLogin, TypeOK
    <3>. QED  BY <2>3, <3>1, <3>3, <3>4, ThreadTypes DEF UsersLogin, TypeOK, server
  <2>4. ASSUME NEW t \in Thread, CheckRequestToken(t) PROVE TypeOK'
    <3>1. step[t] \in {1, 2} /\ (Proceed(t) \/ Fail(t))
      BY <2>4 DEF CheckRequestToken, At
    <3>. QED  BY <2>4, <3>1, ThreadTypes DEF CheckRequestToken, TypeOK, server, clients
  <2>5. ASSUME NEW t \in Thread, UsersLogout(t) PROVE TypeOK'
    <3>1. req[t].token \in Token
      BY <2>5, Fields DEF UsersLogout, At, TypeOK
    <3>. QED  BY <2>5, <3>1 DEF UsersLogout, Succeed, Answer, TypeOK
  <2>6. ASSUME NEW t \in Thread, Serve(t) PROVE TypeOK'
    BY <2>6 DEF Serve, Succeed, Fail, Answer, TypeOK, server, clients
  <2>7. CASE Tick
    BY <2>7, TimeAssumption DEF Tick, TypeOK, server, threads, clients
  <2>8. CASE Restart
    <3>1. passwd' \in [Email -> Passwd \union {None}]
      <4>1. ASSUME NEW t \in Thread, CreateLost(t)
            PROVE  passwd' \in [Email -> Passwd \union {None}]
        <5>1. req[t].email \in Email /\ req[t].passwd \in Passwd
          BY <4>1, Fields DEF CreateLost, At, TypeOK
        <5>. QED  BY <4>1, <5>1 DEF CreateLost, TypeOK
      <4>. QED  BY <2>8, <4>1 DEF Restart, TypeOK
    <3>. QED  BY <2>8, <3>1 DEF Restart, TypeOK, clients, Idle
  <2>9. CASE UNCHANGED vars
    BY <2>9 DEF vars, TypeOK
  <2>. QED  BY <2>1, <2>2, <2>3, <2>4, <2>5, <2>6, <2>7, <2>8, <2>9 DEF Next, Handle
<1>. QED  BY <1>1, <1>2, PTL DEF Spec

-----------------------------------------------------------------------------
(* Whatever step is taken, SecretGuards keeps holding.                     *)
LEMMA GuardsStep ==
    ASSUME TypeOK, SecretGuards, [Next]_vars
    PROVE  SecretGuards'
  <1>1. ASSUME NEW t \in Thread, NEW r \in Credentials \union Bearer(issued), Begin(t, r)
        PROVE  SecretGuards'
    BY <1>1 DEF Begin, SecretGuards, TypeOK, server, clients
  <1>2. ASSUME NEW t \in Thread, UsersRegister(t) PROVE SecretGuards'
    <2>1. req[t].kind = "register" /\ req' = req
      BY <1>2 DEF UsersRegister, At, DuplicatedEmail, Create, Proceed, Succeed, Fail, Answer
    <2>2. \A u \in Thread \ {t} : step'[u] = step[u]
      BY <1>2 DEF UsersRegister, DuplicatedEmail, Create, Proceed, Succeed, Fail, Answer, TypeOK
    <2>. QED  BY <1>2, <2>1, <2>2 DEF UsersRegister, SecretGuards, server
  <1>3. ASSUME NEW t \in Thread, UsersLogin(t) PROVE SecretGuards'
    <2>1. req[t].kind = "login" /\ req' = req
      BY <1>3 DEF UsersLogin, At, Validate, Proceed, Succeed, Fail, Answer
    <2>2. \A u \in Thread \ {t} : step'[u] = step[u]
      BY <1>3 DEF UsersLogin, Validate, Proceed, Succeed, Fail, Answer, TypeOK
    <2>. QED  BY <1>3, <2>1, <2>2 DEF UsersLogin, SecretGuards, server
  <1>4. ASSUME NEW t \in Thread, CheckRequestToken(t) PROVE SecretGuards'
    <2>1. req' = req /\ \A u \in Thread \ {t} : step'[u] = step[u]
      BY <1>4 DEF CheckRequestToken, Proceed, Fail, Answer, TypeOK
    <2>2. step'[t] \in {2, 3} => req[t].token.secret = secret
      <3>1. CASE step[t] = 1
        BY <1>4, <3>1 DEF CheckRequestToken, At, Decodes, Proceed, Fail, Answer, TypeOK
      <3>2. CASE step[t] = 2
        BY <1>4, <3>2 DEF CheckRequestToken, At, SecretGuards
      <3>. QED  BY <1>4, <3>1, <3>2 DEF CheckRequestToken, At
    <2>. QED  BY <1>4, <2>1, <2>2 DEF CheckRequestToken, SecretGuards, server, clients
  <1>5. ASSUME NEW t \in Thread, UsersLogout(t) PROVE SecretGuards'
    <2>1. req' = req /\ \A u \in Thread : step'[u] \in {2, 3} => step'[u] = step[u]
      BY <1>5 DEF UsersLogout, Succeed, Answer, TypeOK
    <2>2. req[t].token.secret = secret
      BY <1>5 DEF UsersLogout, At, SecretGuards
    <2>3. secret \in Nat
      BY TimeAssumption DEF TypeOK
    <2>. QED  BY <1>5, <2>1, <2>2, <2>3 DEF UsersLogout, SecretGuards
  <1>6. ASSUME NEW t \in Thread, Serve(t) PROVE SecretGuards'
    <2>1. req' = req /\ \A u \in Thread : step'[u] \in {2, 3} => step'[u] = step[u]
      BY <1>6 DEF Serve, Succeed, Fail, Answer, TypeOK
    <2>. QED  BY <1>6, <2>1 DEF Serve, SecretGuards, server, clients
  <1>7. CASE Tick
    BY <1>7 DEF Tick, SecretGuards, server, threads, clients
  <1>8. CASE Restart
    <2>1. \A x \in loggedOut : x.secret <= secret' /\ x.secret # secret'
      <3>1. \A x \in loggedOut : x.secret \in Nat
        BY TimeAssumption DEF TypeOK, Token
      <3>2. secret \in Nat /\ clock \in Nat /\ secret < clock /\ secret' = clock
        BY <1>8, TimeAssumption DEF Restart, TypeOK
      <3>. QED  BY <3>1, <3>2 DEF SecretGuards
    <2>2. loggedOut' = loggedOut /\ \A u \in Thread : step'[u] = 0
      BY <1>8 DEF Restart, clients
    <2>. QED  BY <2>1, <2>2 DEF SecretGuards
  <1>9. CASE UNCHANGED vars
    BY <1>9 DEF vars, SecretGuards
  <1>. QED  BY <1>1, <1>2, <1>3, <1>4, <1>5, <1>6, <1>7, <1>8, <1>9 DEF Next, Handle

(* A thread goes from step 2 to step 3 with a token only past the look-up. *)
LEMMA PastLookup ==
    ASSUME TypeOK, SecretGuards, [Next]_vars,
           NEW t \in Thread, step[t] = 2, step'[t] = 3
    PROVE  req[t].token \notin loggedOut
  <1>1. ASSUME NEW u \in Thread, NEW r, Begin(u, r) PROVE FALSE
    BY <1>1 DEF Begin, TypeOK
  <1>2. ASSUME NEW u \in Thread, UsersRegister(u) PROVE FALSE
    BY <1>2 DEF UsersRegister, At, DuplicatedEmail, Create, Proceed, Succeed, Fail, Answer, TypeOK
  <1>3. ASSUME NEW u \in Thread, UsersLogin(u) PROVE FALSE
    BY <1>3 DEF UsersLogin, At, Validate, Proceed, Succeed, Fail, Answer, TypeOK
  <1>4. ASSUME NEW u \in Thread, CheckRequestToken(u)
        PROVE  req[t].token \notin loggedOut
    <2>1. u = t
      BY <1>4 DEF CheckRequestToken, Proceed, Fail, Answer, TypeOK
    <2>2. req[t].token \notin invalid
      BY <1>4, <2>1 DEF CheckRequestToken, At, Fail, Answer, TypeOK
    <2>3. req[t].token.secret = secret
      BY <1>4, <2>1 DEF CheckRequestToken, At, SecretGuards
    <2>. QED  BY <2>2, <2>3 DEF SecretGuards
  <1>5. ASSUME NEW u \in Thread, UsersLogout(u) PROVE FALSE
    BY <1>5 DEF UsersLogout, Succeed, Answer, TypeOK
  <1>6. ASSUME NEW u \in Thread, Serve(u) PROVE FALSE
    BY <1>6 DEF Serve, Succeed, Fail, Answer, TypeOK
  <1>7. CASE Tick
    BY <1>7 DEF Tick, threads
  <1>8. CASE Restart
    BY <1>8 DEF Restart
  <1>9. CASE UNCHANGED vars
    BY <1>9 DEF vars
  <1>. QED  BY <1>1, <1>2, <1>3, <1>4, <1>5, <1>6, <1>7, <1>8, <1>9 DEF Next, Handle

(* Once a logout is answered, no handler lets its token in, whatever the   *)
(* other threads do and however often the server restarts.                 *)
THEOREM LogoutIsFinal == Spec => LoggedOutStaysOut
<1>1. Init => SecretGuards
  BY DEF Init, SecretGuards
<1>2. TypeOK /\ SecretGuards /\ [Next]_vars => SecretGuards'
  BY GuardsStep
<1>3. TypeOK /\ SecretGuards /\ [Next]_vars
         => [\A t \in Thread : step[t] = 2 /\ step'[t] = 3
                => req[t].token \notin loggedOut]_vars
  BY PastLookup
<1>. QED  BY <1>1, <1>2, <1>3, TypeCorrect, PTL DEF Spec, LoggedOutStaysOut

-----------------------------------------------------------------------------
(* Of any number of concurrent registrations of one email with different   *)
(* passwords, whichever fail or lose their answers, at most one is told    *)
(* success, and its password is the account's for good: createUserNode's   *)
(* Taken test decides, whatever DuplicatedEmail said.                      *)
THEOREM RegistrationIsKept == Spec => []AccountKept
<1>1. Init => AccountKept
  BY DEF Init, AccountKept
<1>2. TypeOK /\ AccountKept /\ [Next]_vars => AccountKept'
  <2>. SUFFICES ASSUME TypeOK, AccountKept, [Next]_vars PROVE AccountKept'
    OBVIOUS
  <2>1. CASE UNCHANGED <<passwd, accounts>>
    BY <2>1 DEF AccountKept
  <2>2. ASSUME NEW t \in Thread, Create(t), req[t].kind = "register",
               ~ UNCHANGED <<passwd, accounts>>
        PROVE  AccountKept'
    <3>1. req[t].email \in Email /\ req[t].passwd \in Passwd
      BY <2>2, Fields DEF TypeOK
    <3>2. /\ passwd[req[t].email] = None
          /\ passwd' = [passwd EXCEPT ![req[t].email] = req[t].passwd]
          /\ accounts' = accounts \union {<<req[t].email, req[t].passwd>>}
      BY <2>2 DEF Create
    <3>3. \A a \in accounts : a[1] # req[t].email
      BY <3>2, PasswdAssumption DEF AccountKept, TypeOK
    <3>4. \A a \in accounts : a[1] \in Email
      BY DEF TypeOK
    <3>. QED  BY <3>1, <3>2, <3>3, <3>4 DEF AccountKept, TypeOK
  <2>3. ASSUME NEW t \in Thread, UsersRegister(t) PROVE AccountKept'
    BY <2>1, <2>2, <2>3 DEF UsersRegister, At
  <2>4. ASSUME NEW t \in Thread, Handle(t), ~ UsersRegister(t)
        PROVE  UNCHANGED <<passwd, accounts>>
    BY <2>4 DEF Handle, UsersLogin, UsersLogout, CheckRequestToken, Serve, clients
  <2>5. ASSUME NEW t \in Thread, NEW r, Begin(t, r)
        PROVE  UNCHANGED <<passwd, accounts>>
    BY <2>5 DEF Begin, clients
  <2>6. CASE Restart
    <3>1. accounts' = accounts
      BY <2>6 DEF Restart, clients
    <3>2. ASSUME NEW t \in Thread, CreateLost(t) PROVE AccountKept'
      <4>1. req[t].email \in Email
        BY <3>2, Fields DEF CreateLost, At, TypeOK
      <4>2. \A a \in accounts : a[1] # req[t].email
        BY <3>2, PasswdAssumption DEF CreateLost, AccountKept, TypeOK
      <4>. QED  BY <3>1, <3>2, <4>1, <4>2 DEF CreateLost, AccountKept, TypeOK
    <3>. QED  BY <2>1, <2>6, <3>1, <3>2 DEF Restart
  <2>7. Tick \/ UNCHANGED vars => UNCHANGED <<passwd, accounts>>
    BY DEF Tick, vars, clients
  <2>. QED  BY <2>1, <2>3, <2>4, <2>5, <2>6, <2>7 DEF Next
<1>. QED  BY <1>1, <1>2, TypeCorrect, PTL DEF Spec
=============================================================================
