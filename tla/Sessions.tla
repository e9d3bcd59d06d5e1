------------------------------ MODULE Sessions ------------------------------
(***************************************************************************)
(* Accounts and sessions: the handlers UsersRegister, UsersLogin and       *)
(* UsersLogout of api/api.cpp with class Users, and the token check that   *)
(* opens every other handler.  A token is a signed JWT: the server keeps   *)
(* no record of the tokens it gave out, only the set of those that were    *)
(* logged out.  Handlers run concurrently on the threads of the server;    *)
(* a restart forgets the set and draws a new secret.                       *)
(*                                                                         *)
(* The User nodes of the database are the function passwd; createUserNode  *)
(* and getUserNode are one query each (module DB), so a step here is one   *)
(* query, one critical section, or the code between two of them.           *)
(***************************************************************************)
EXTENDS Naturals

CONSTANTS
    Thread,       \* threads of the server
    Email,        \* well-formed emails (Common::IsEmail)
    Passwd,       \* hashed passwords
    Lifetime,     \* seconds a token is valid (3600 in UsersLogin)
    MaxTime,      \* bound on the clock
    Unreliable,   \* TRUE if queries to the database may fail
    None          \* no user of that email

ASSUME TimeAssumption == Lifetime \in Nat /\ MaxTime \in Nat
ASSUME PasswdAssumption == None \notin Passwd
ASSUME UnreliableAssumption == Unreliable \in BOOLEAN

VARIABLES
    clock,        \* the system clock, in seconds
    secret,       \* token_secret_key
    passwd,       \* the passwd field of the User nodes
    invalid,      \* invalid_tokens
    req,          \* the request a thread is handling, or handled last
    step,         \* how far it is: 0 when it has answered
    reply,        \* its answer
    issued,       \* tokens clients have received
    loggedOut,    \* tokens whose logout was answered with success
    accounts      \* email and password of the registrations that succeeded

server  == <<secret, invalid>>
threads == <<req, step, reply>>
clients == <<issued, loggedOut, accounts>>
vars    == <<clock, secret, passwd, invalid, req, step, reply,
             issued, loggedOut, accounts>>

(* A JWT is determined by the email, the second it expires in and the      *)
(* secret.  The secret is drawn from srand(time * pid): a process started  *)
(* in another second has another one.                                      *)
Token == [email: Email, exp: 0..(MaxTime + Lifetime), secret: 0..MaxTime]

Credentials == [kind: {"register", "login"}, email: Email, passwd: Passwd]
Bearer(T)   == [kind: {"logout", "access"}, token: T]
Idle        == [kind |-> "none"]

-----------------------------------------------------------------------------
(* Mutants: the request is never taken up again; a token that outlives its *)
(* hour.                                                                   *)
ProceedNever(t) == UNCHANGED threads
EncodeTokenTwice(email) ==
    [email |-> email, exp |-> clock + Lifetime + Lifetime, secret |-> secret]

At(t, kinds, i) == req[t].kind \in kinds /\ step[t] = i

Proceed(t) == step' = [step EXCEPT ![t] = @ + 1] /\ UNCHANGED <<req, reply>>

Answer(t, msg) == /\ step'  = [step EXCEPT ![t] = 0]
                  /\ reply' = [reply EXCEPT ![t] = msg]
                  /\ UNCHANGED req

Succeed(t) == Answer(t, "success")
Fail(t)    == Answer(t, "failed")

(* EncodeTokenFromEmail and DecodeEmailFromToken. *)
EncodeToken(email) ==
    [email |-> email, exp |-> clock + Lifetime, secret |-> secret]
Decodes(token) == token.secret = secret /\ clock <= token.exp

-----------------------------------------------------------------------------
(* Class Users.  When getUserNode fails, DuplicatedEmail says false.       *)
(* The mutant overwrites a user that exists.                               *)
DuplicatedEmail(t) ==
    \/ passwd[req[t].email] # None /\ Fail(t)
    \/ (passwd[req[t].email] = None \/ Unreliable) /\ Proceed(t)

CreateAlways(t) ==
    /\ passwd' = [passwd EXCEPT ![req[t].email] = req[t].passwd]
    /\ accounts' = accounts \union {<<req[t].email, req[t].passwd>>}
    /\ Succeed(t)

Create(t) ==
    \/ /\ passwd[req[t].email] = None
       /\ passwd' = [passwd EXCEPT ![req[t].email] = req[t].passwd]
       /\ accounts' = accounts \union {<<req[t].email, req[t].passwd>>}
       /\ Succeed(t)
    \/ /\ passwd[req[t].email] # None \/ Unreliable
       /\ Fail(t)
       /\ UNCHANGED <<passwd, accounts>>

Validate(t) ==
    \/ passwd[req[t].email] = req[t].passwd /\ Proceed(t)
    \/ (passwd[req[t].email] # req[t].passwd \/ Unreliable) /\ Fail(t)

-----------------------------------------------------------------------------
(* The handlers.  invalid_tokens_lock makes the look-up and the insertion  *)
(* atomic each, not the two together.                                      *)
UsersRegister(t) ==
    /\ \/ /\ At(t, {"register"}, 1)
          /\ DuplicatedEmail(t)
          /\ UNCHANGED <<passwd, accounts>>
       \/ At(t, {"register"}, 2) /\ Create(t)
    /\ UNCHANGED <<clock, server, issued, loggedOut>>

UsersLogin(t) ==
    /\ \/ At(t, {"login"}, 1) /\ Validate(t) /\ UNCHANGED issued
       \/ /\ At(t, {"login"}, 2)
          /\ issued' = issued \union {EncodeToken(req[t].email)}
          /\ Succeed(t)
    /\ UNCHANGED <<clock, server, passwd, loggedOut, accounts>>

(* API_CHECK_REQUEST_TOKEN, in every handler but the two above and Health. *)
CheckRequestToken(t) ==
    /\ \/ /\ At(t, {"logout", "access"}, 1)
          /\ IF Decodes(req[t].token) THEN Proceed(t) ELSE Fail(t)
       \/ /\ At(t, {"logout", "access"}, 2)
          /\ IF req[t].token \in invalid THEN Fail(t) ELSE Proceed(t)
    /\ UNCHANGED <<clock, server, passwd, clients>>

UsersLogout(t) ==
    /\ At(t, {"logout"}, 3)
    /\ invalid' = invalid \union {req[t].token}
    /\ loggedOut' = loggedOut \union {req[t].token}
    /\ Succeed(t)
    /\ UNCHANGED <<clock, secret, passwd, issued, accounts>>

(* Any handler that serves the user whose token it checked. *)
Serve(t) == /\ At(t, {"access"}, 3)
            /\ Succeed(t) \/ Fail(t)
            /\ UNCHANGED <<clock, server, passwd, clients>>

Begin(t, r) == /\ step[t] = 0
               /\ req'   = [req EXCEPT ![t] = r]
               /\ step'  = [step EXCEPT ![t] = 1]
               /\ reply' = [reply EXCEPT ![t] = "none"]
               /\ UNCHANGED <<clock, server, passwd, clients>>

Tick == /\ clock < MaxTime
        /\ clock' = clock + 1
        /\ UNCHANGED <<server, passwd, threads, clients>>

(* Mutant: a secret that outlives the process. *)
RestartSameSecret == /\ clock > secret
                     /\ invalid' = {}
                     /\ req'   = [t \in Thread |-> Idle]
                     /\ step'  = [t \in Thread |-> 0]
                     /\ reply' = [t \in Thread |-> "none"]
                     /\ UNCHANGED <<clock, secret, passwd, clients>>

(* createUserNode's CREATE is committed and its answer lost: there is no   *)
(* error code then, and comparing it with one ends the process.            *)
CreateLost(t) ==
    /\ At(t, {"register"}, 2) /\ Unreliable
    /\ passwd[req[t].email] = None
    /\ passwd' = [passwd EXCEPT ![req[t].email] = req[t].passwd]

(* The process ends, whatever its threads are doing, and a new one starts  *)
(* in a later second than the old one did.                                 *)
Restart == /\ clock > secret
           /\ secret'  = clock
           /\ invalid' = {}
           /\ req'   = [t \in Thread |-> Idle]
           /\ step'  = [t \in Thread |-> 0]
           /\ reply' = [t \in Thread |-> "none"]
           /\ UNCHANGED passwd \/ \E t \in Thread : CreateLost(t)
           /\ UNCHANGED <<clock, clients>>

-----------------------------------------------------------------------------
Init == /\ clock = 0 /\ secret = 0
        /\ passwd  = [e \in Email |-> None]
        /\ invalid = {}
        /\ req     = [t \in Thread |-> Idle]
        /\ step    = [t \in Thread |-> 0]
        /\ reply   = [t \in Thread |-> "none"]
        /\ issued = {} /\ loggedOut = {} /\ accounts = {}

Handle(t) == \/ UsersRegister(t) \/ UsersLogin(t) \/ UsersLogout(t)
             \/ CheckRequestToken(t) \/ Serve(t)

Next == \/ \E t \in Thread :
              \/ \E r \in Credentials \union Bearer(issued) : Begin(t, r)
              \/ Handle(t)
        \/ Tick
        \/ Restart

Spec == Init /\ [][Next]_vars

(* The threads run and the database answers. *)
FairSpec == Spec /\ \A t \in Thread : WF_vars(Handle(t))

-----------------------------------------------------------------------------
(* Correctness.                                                            *)

(* Every variable has its type.                                            *)
TypeOK ==
    /\ clock \in 0..MaxTime
    /\ secret \in 0..MaxTime
    /\ passwd \in [Email -> Passwd \union {None}]
    /\ invalid \subseteq Token
    /\ req \in [Thread -> Credentials \union Bearer(Token) \union {Idle}]
    /\ step \in [Thread -> 0..3]
    /\ reply \in [Thread -> {"none", "success", "failed"}]
    /\ issued \subseteq Token
    /\ loggedOut \subseteq Token
    /\ accounts \subseteq Email \X Passwd

(* "The user can no long use the token to access our service by this       *)
(* token" (documents/meeting-10-10.md): once a logout is answered, no      *)
(* handler lets its token in, by whichever thread, before or after a       *)
(* restart.                                                                *)
LoggedOutStaysOut ==
    [][\A t \in Thread : step[t] = 2 /\ step'[t] = 3
          => req[t].token \notin loggedOut]_vars

(* A registration that was answered with success keeps its account: of     *)
(* concurrent registrations of an email with different passwords at most   *)
(* one is told success, and the account has that one's password for good.  *)
AccountKept == \A a \in accounts : passwd[a[1]] = a[2]

(* "A message and token will be returned if successful.  The user can then *)
(* use this token to access our services" (documents/meeting-10-10.md): a  *)
(* login does not hand out a token that was logged out.                    *)
FreshTokenUsable ==
    [][\A t \in Thread :
          At(t, {"login"}, 2) /\ step'[t] = 0 /\ reply'[t] = "success"
             => EncodeToken(req[t].email) \notin invalid]_vars

(* Every request is answered: a thread is free again and again.            *)
Responds == \A t \in Thread : []<>(step[t] = 0)
=============================================================================
