----------------------------- MODULE Identities -----------------------------
(***************************************************************************)
(* Named accounts, their factors and their sessions: internal/auth and the *)
(* handlers of auth_session*.go and auth_identity_http.go.                 *)
(*                                                                         *)
(* A request loads its session from the store, runs its handler against    *)
(* the database in several statements, and only when its answer is written *)
(* does the session library commit the session it has staged.  Between     *)
(* those steps other requests change passwords, factors, roles and         *)
(* sessions.  What keeps a late commit from bringing back what was revoked *)
(* is the store itself: tombstones for deleted tokens, and the generations *)
(* of the account compared in the statement that inserts the row.          *)
(*                                                                         *)
(* A user name is the account's identifier.  Rate limits, expiry of recent *)
(* authentication and validation only refuse a request and are left out;   *)
(* so is the metadata of a session, which only its listing shows.          *)
(***************************************************************************)
EXTENDS Integers, FiniteSets, FiniteSetsExt, Functions, TLC

CONSTANTS
    Requests,    \* the requests in flight
    Accounts,    \* account identifiers, 1 the account of the setup
    Passwords,
    Roles,       \* the roles of the model, "admin" among them
    First,       \* where a run may start: accounts, with a backup of them, the clock,
                 \* operations spent and tokens issued
    MaxTokens,   \* bound: session tokens ever issued
    MaxOps,      \* bound: operations of signed-in users, expiries, recoveries,
                 \* backups and restores
    MaxTime      \* bound: the current step of the one-time-password clock

VARIABLES
    db,       \* the database
    archive,  \* the database of the latest backup
    now,      \* the 30-second step of the clock
    req,      \* the requests
    issued,   \* session tokens issued so far
    ops,      \* operations started so far
    used,     \* one-time codes accepted so far, as <<secret, step or recovery code>>
    replayed  \* whether a code was accepted a second time

vars == <<db, archive, now, req, issued, ops, used, replayed>>

-----------------------------------------------------------------------------
(* The tables.                                                             *)

\* An account's row as it is created: enabled, no factor, generations zero.
NewAccount(pw, role) ==
    [pw |-> pw, role |-> role, off |-> FALSE, gen |-> 0, lgen |-> 0,
     mfa |-> 0, pending |-> 0, last |-> -1, codes |-> {}]

NoAccount == [NewAccount(0, "none") EXCEPT !.off = TRUE]

\* The values of a session.
NoData == [user |-> 0, acct |-> 0, gen |-> 0, lgen |-> 0, login |-> 0, epoch |-> 0]

EmptyDB == [acct |-> [a \in Accounts |-> NoAccount], sess |-> <<>>, tomb |-> {},
            chal |-> {}, pat |-> {}, login |-> 0, epoch |-> 1]

NoRequest == [pc |-> "idle", tok |-> 0, data |-> NoData, dirty |-> FALSE, who |-> 0,
              pw |-> 0, mfa |-> FALSE, gen |-> 0, lgen |-> 0, factor |-> 0]

Exists(a) == db.acct[a].role # "none"

\* The rows of an account; a session without an identity is stored under the
\* first one.
Owned(d, a) == {t \in DOMAIN d.sess :
                  a = IF d.sess[t].acct = 0 THEN 1 ELSE d.sess[t].acct}

\* Deleting session rows leaves a tombstone for each of them, in the same
\* transaction.
DeleteSessions(d, ts) ==
    [d EXCEPT !.sess = Restrict(d.sess, DOMAIN d.sess \ ts), !.tomb = @ \cup ts]

\* invalidateIdentityTx: sessions, challenges and personal tokens of an account.
InvalidateIdentity(d, a) ==
    [DeleteSessions(d, Owned(d, a)) EXCEPT
        !.chal = {c \in @ : c.acct # a},
        !.pat = {IF p.acct = a THEN [p EXCEPT !.live = FALSE] ELSE p : p \in @},
        !.login = @ + 1]

\* advance_login_generation: what any write of the password hash brings along.
SetPassword(d, a, pw) ==
    [d EXCEPT !.acct[a].pw = pw, !.acct[a].lgen = @ + 1, !.login = @ + 1]

Init ==
    /\ \E first \in First :
         /\ db = [EmptyDB EXCEPT !.acct = first.acct]
         /\ used = {<<first.acct[a].mfa, first.acct[a].last>> :
                      a \in {b \in Accounts : first.acct[b].mfa # 0}}
         /\ archive = db
         /\ now = first.now
         /\ ops = first.ops
         /\ issued = first.issued
    /\ req = [r \in Requests |-> NoRequest]
    /\ replayed = FALSE

Clocks == <<archive, now>>

Ghosts == <<used, replayed>>

-----------------------------------------------------------------------------
(* One-time codes.                                                         *)

\* The codes a user can present: of the adjacent steps of the clock, or a
\* recovery code.
RecoveryCode == -2

Codes == ((now - 1)..(now + 1)) \cup {RecoveryCode}

\* Mutant: a code of the last accepted step is taken again.
AcceptsLastStep(a, code) ==
    IF code = RecoveryCode THEN a.codes # {} ELSE code >= a.last /\ code >= 0

\* totpStep and the deletion of a recovery code: whether the code is taken.
Accepts(a, code) ==
    IF code = RecoveryCode THEN a.codes # {} ELSE code > a.last /\ code >= 0

\* consumeFactorTx on an account with a factor.
Consume(d, id, code) ==
    IF code = RecoveryCode THEN [d EXCEPT !.acct[id].codes = {}]
                     ELSE [d EXCEPT !.acct[id].last = code]

Record(secret, code) ==
    /\ used' = used \cup {<<secret, code>>}
    /\ replayed' = (replayed \/ <<secret, code>> \in used)

-----------------------------------------------------------------------------
(* Signing in.                                                             *)

\* A request without a cookie, or with the token of a stored session whose
\* values it loads.  An idle timeout has every loaded session committed anew.
Loaded(t) == [NoRequest EXCEPT !.tok = t, !.data = IF t = 0 THEN NoData ELSE db.sess[t],
                               !.dirty = t # 0]

Cookies == {0} \cup DOMAIN db.sess

Finish(r, q) ==
    req' = [req EXCEPT ![r] =
              IF q.dirty THEN [NoRequest EXCEPT !.pc = "commit", !.tok = q.tok, !.data = q.data]
                         ELSE NoRequest]

\* CreateInitialUser: only while there is no account.
InitialUser(d, pw) == [d EXCEPT !.acct[1] = NewAccount(pw, "admin")]

\* handleAuthSetup up to the account it creates.
Setup(r, pw) ==
    /\ req[r].pc = "idle"
    /\ \A a \in Accounts : ~Exists(a)
    /\ db' = InitialUser(db, pw)
    /\ req' = [req EXCEPT ![r] = [Loaded(0) EXCEPT !.pc = "stage", !.who = 1, !.gen = -1]]
    /\ UNCHANGED <<Clocks, issued, ops, Ghosts>>

\* Login up to the verification: the generations of the account are taken
\* before the password is looked at.
LoginPrepare(r, t, a, pw) ==
    /\ req[r].pc = "idle"
    /\ issued < MaxTokens
    /\ Exists(a)
    /\ req' = [req EXCEPT ![r] =
                 [Loaded(t) EXCEPT !.pc = "login", !.who = a, !.pw = pw,
                                   !.gen = db.acct[a].gen, !.lgen = db.acct[a].lgen]]
    /\ UNCHANGED <<db, Clocks, issued, ops, Ghosts>>

Authenticates(a, pw) == db.acct[a].pw = pw /\ ~db.acct[a].off

LoginPassword(r) ==
    /\ req[r].pc = "login"
    /\ IF Authenticates(req[r].who, req[r].pw)
       THEN req' = [req EXCEPT ![r].pc = "factor"]
       ELSE Finish(r, req[r])
    /\ UNCHANGED <<db, Clocks, issued, ops, Ghosts>>

\* NewLoginChallenge's insertion holds the account to the generations taken.
Unchanged(q) == /\ q.gen = db.acct[q.who].gen
                /\ q.lgen = db.acct[q.who].lgen
                /\ ~db.acct[q.who].off

LoginFactor(r) ==
    /\ req[r].pc = "factor"
    /\ LET q == req[r] a == db.acct[q.who]
       IN IF a.mfa = 0
          THEN req' = [req EXCEPT ![r].pc = "stage"] /\ UNCHANGED db
          ELSE /\ db' = IF Unchanged(q)
                        THEN [db EXCEPT !.chal = @ \cup {[acct |-> q.who, gen |-> q.gen,
                                                          lgen |-> q.lgen, pw |-> q.pw]}]
                        ELSE db
               /\ Finish(r, q)
    /\ UNCHANGED <<Clocks, issued, ops, Ghosts>>

\* handleMFAChallenge: the challenge is spent whether or not the code is taken.
CompleteLoginChallenge(r, t, c, code) ==
    LET a == db.acct[c.acct]
        spent == [db EXCEPT !.chal = @ \ {c}]
    IN /\ req[r].pc = "idle"
       /\ issued < MaxTokens
       /\ c.gen = a.gen /\ c.lgen = a.lgen /\ ~a.off /\ a.mfa # 0
       /\ IF Accepts(a, code)
          THEN /\ db' = Consume(spent, c.acct, code)
               /\ req' = [req EXCEPT ![r] =
                            [Loaded(t) EXCEPT !.pc = "stage", !.who = c.acct, !.pw = c.pw,
                                   !.factor = a.mfa, !.gen = a.gen, !.lgen = a.lgen]]
               /\ Record(a.mfa, code)
          ELSE db' = spent /\ Finish(r, Loaded(t)) /\ UNCHANGED Ghosts
       /\ UNCHANGED <<Clocks, issued, ops>>

\* Stage: the token is renewed, which deletes the session of the old one, and
\* the session is bound to the account if its generations are still those of
\* the preparation.  A refusal leaves the values of the old session in place.
\* The installation's login generation is staged too; the store reads it back
\* only where no account is bound.
Bound(q) == q.gen = -1 \/ (q.gen = db.acct[q.who].gen /\ q.lgen = db.acct[q.who].lgen)

Stage(r) ==
    LET q == req[r]
        a == db.acct[q.who]
        named == [q.data EXCEPT !.user = q.who, !.epoch = db.epoch]
    IN /\ q.pc = "stage"
       /\ issued < MaxTokens
       /\ issued' = issued + 1
       /\ db' = DeleteSessions(db, {q.tok} \cap DOMAIN db.sess)
       /\ req' = [req EXCEPT ![r] =
                    [NoRequest EXCEPT !.pc = "commit", !.tok = issued + 1,
                       !.pw = q.pw, !.factor = q.factor,
                       !.data = IF Bound(q) /\ ~a.off
                                THEN [named EXCEPT !.acct = q.who, !.gen = a.gen,
                                                   !.lgen = a.lgen]
                                ELSE [named EXCEPT !.login = db.login]]]
       /\ UNCHANGED <<Clocks, ops, Ghosts>>

\* Mutant: a token that was deleted meanwhile is inserted again.
AdmitsDeleted(t, s) ==
    LET a == db.acct[s.acct]
    IN IF s.acct = 0
       THEN t \in DOMAIN db.sess \/ s.login = db.login
       ELSE /\ t \in db.tomb \cup DOMAIN db.sess \/ a.lgen = s.lgen
            /\ s.epoch = db.epoch

\* revocationAwareSessionStore.Commit: one statement.
Admits(t, s) ==
    LET a == db.acct[s.acct]
    IN /\ t \notin db.tomb
       /\ IF s.acct = 0
          THEN t \in DOMAIN db.sess \/ s.login = db.login
          ELSE /\ t \in DOMAIN db.sess \/ a.lgen = s.lgen
               /\ a.gen = s.gen /\ ~a.off
               /\ s.epoch = db.epoch

Commit(r) ==
    LET q == req[r]
    IN /\ q.pc = "commit"
       /\ db' = IF Admits(q.tok, q.data) THEN [db EXCEPT !.sess = (q.tok :> q.data) @@ @] ELSE db
       /\ req' = [req EXCEPT ![r] = NoRequest]
       /\ UNCHANGED <<Clocks, issued, ops, Ghosts>>

-----------------------------------------------------------------------------
(* Requests of a signed-in user.                                           *)

Operations == {"page", "logout", "clear", "others", "revoke", "password", "update",
               "create", "enroll", "confirm", "disable", "reauth", "token", "untoken"}

\* SessionAccount: whether the loaded values still name a usable account.
Resolves(s) == /\ s.acct # 0 /\ s.user = s.acct
               /\ ~db.acct[s.acct].off
               /\ s.gen = db.acct[s.acct].gen
               /\ s.epoch = db.epoch

\* authGateMiddleware: the principal is resolved once, before the handler.
\* Administration of accounts needs the role that reaches settings.
Gate(r, t, op) ==
    LET s == db.sess[t]
        q == Loaded(t)
    IN /\ req[r].pc = "idle"
       /\ ops < MaxOps
       /\ ops' = ops + 1
       /\ IF Resolves(s) /\ (op \in {"update", "create"} => db.acct[s.acct].role = "admin")
          THEN req' = [req EXCEPT ![r] = [q EXCEPT !.pc = op, !.who = s.acct,
                               !.mfa = op = "reauth" /\ db.acct[s.acct].mfa # 0,
                               !.factor = IF op = "enroll" THEN ops + 1 ELSE 0]]
          ELSE Finish(r, q)
       /\ UNCHANGED <<db, Clocks, issued, Ghosts>>

\* The handler's last statement, after which its answer is written.
Answers(r, d) == db' = d /\ Finish(r, req[r]) /\ UNCHANGED <<Clocks, issued, ops>>

\* The same where the session is destroyed: the answer only clears the cookie.
Destroyed(d, r) == DeleteSessions(d, {req[r].tok} \cap DOMAIN d.sess)

EndsSession(r, d) ==
    /\ db' = Destroyed(d, r)
    /\ req' = [req EXCEPT ![r] = NoRequest]
    /\ UNCHANGED <<Clocks, issued, ops>>

At(r, op) == req[r].pc = op

Page(r) == At(r, "page") /\ Answers(r, db) /\ UNCHANGED Ghosts

Logout(r) == At(r, "logout") /\ EndsSession(r, db) /\ UNCHANGED Ghosts

\* ClearSessions: the own session first, the others in a second statement.
ClearOwn(r) ==
    /\ At(r, "clear")
    /\ db' = Destroyed(db, r)
    /\ req' = [req EXCEPT ![r].pc = "clear-all", ![r].dirty = FALSE]
    /\ UNCHANGED <<Clocks, issued, ops, Ghosts>>

NextLogin(d, a) == [d EXCEPT !.acct[a].lgen = @ + 1, !.login = @ + 1]

ClearAll(r) ==
    /\ At(r, "clear-all")
    /\ Answers(r, DeleteSessions(NextLogin(db, req[r].who), Owned(db, req[r].who)))
    /\ UNCHANGED Ghosts

Others(r) == DeleteSessions(NextLogin(db, req[r].who), Owned(db, req[r].who) \ {req[r].tok})

ClearOtherSessions(r) == At(r, "others") /\ Answers(r, Others(r)) /\ UNCHANGED Ghosts

\* RevokeSession: any session of the account, the own one included.
RevokeSession(r) ==
    /\ At(r, "revoke")
    /\ \E t \in Owned(db, req[r].who) :
         IF t = req[r].tok THEN EndsSession(r, db) ELSE Answers(r, DeleteSessions(db, {t}))
    /\ UNCHANGED Ghosts

\* Service.ChangePassword: the current password is verified in one statement,
\* the hash written in the next, the other sessions cleared in a third.
VerifyPassword(r, pw) ==
    /\ At(r, "password")
    /\ IF Authenticates(req[r].who, pw)
       THEN req' = [req EXCEPT ![r].pc = "hash"]
       ELSE Finish(r, req[r])
    /\ UNCHANGED <<db, Clocks, issued, ops, Ghosts>>

UpdatePasswordHash(r, pw, invalidate) ==
    /\ At(r, "hash")
    /\ db' = SetPassword(db, req[r].who, pw)
    /\ IF invalidate THEN req' = [req EXCEPT ![r].pc = "others"] ELSE Finish(r, req[r])
    /\ UNCHANGED <<Clocks, issued, ops, Ghosts>>

\* UpdateAccount with its triggers: the last administrator stays, and an
\* account that changed loses its sessions, and its tokens when disabled.
Administrators(d) == {a \in Accounts : d.acct[a].role = "admin" /\ ~d.acct[a].off}

Changed(d, a, role, off) ==
    [DeleteSessions(NextLogin(d, a), Owned(d, a)) EXCEPT
        !.acct[a].role = role, !.acct[a].off = off, !.acct[a].gen = @ + 1,
        !.pat = {IF p.acct = a /\ off THEN [p EXCEPT !.live = FALSE] ELSE p : p \in @}]

UpdateAccount(r, a, role, off) ==
    /\ At(r, "update")
    /\ Exists(a)
    /\ Answers(r, IF \/ <<role, off>> = <<db.acct[a].role, db.acct[a].off>>
                     \/ Administrators(db) = {a} /\ (role # "admin" \/ off)
                  THEN db ELSE Changed(db, a, role, off))
    /\ UNCHANGED Ghosts

CreateAccount(r, a, pw, role) ==
    /\ At(r, "create")
    /\ Answers(r, IF Exists(a) THEN db ELSE [db EXCEPT !.acct[a] = NewAccount(pw, role)])
    /\ UNCHANGED Ghosts

\* BeginMFA: a fresh secret, here the number of the operation, replaces one
\* that was not confirmed; never an enabled one.
BeginMFA(r) ==
    LET a == db.acct[req[r].who]
    IN /\ At(r, "enroll")
       /\ Answers(r, IF a.mfa = 0 /\ ~a.off
                     THEN [db EXCEPT !.acct[req[r].who].pending = req[r].factor] ELSE db)
       /\ UNCHANGED Ghosts

\* ConfirmMFA: the pending secret is enabled with the step of its first code,
\* and everything issued before goes with the same transaction.
ConfirmMFA(r, step) ==
    LET id == req[r].who
        a == db.acct[id]
    IN /\ At(r, "confirm")
       /\ IF a.pending # 0 /\ a.mfa = 0 /\ ~a.off /\ step >= 0
          THEN /\ EndsSession(r, InvalidateIdentity(
                    [db EXCEPT !.acct[id].mfa = a.pending, !.acct[id].pending = 0,
                               !.acct[id].last = step, !.acct[id].gen = @ + 1,
                               !.acct[id].codes = {a.pending}], id))
               /\ Record(a.pending, step)
          ELSE Answers(r, db) /\ UNCHANGED Ghosts

\* An account without factors, as DisableMFA and a local recovery leave it.
WithoutFactor(d, a) ==
    [d EXCEPT !.acct[a].mfa = 0, !.acct[a].pending = 0, !.acct[a].last = -1,
              !.acct[a].gen = @ + 1, !.acct[a].codes = {}]

DisableMFA(r) ==
    /\ At(r, "disable")
    /\ EndsSession(r, InvalidateIdentity(WithoutFactor(db, req[r].who), req[r].who))
    /\ UNCHANGED Ghosts

\* handleReauthenticate: the password, then a code if the account had a factor
\* when the request was admitted; the session is put back either way.
ReauthPassword(r, pw) ==
    /\ At(r, "reauth")
    /\ IF Authenticates(req[r].who, pw) /\ req[r].mfa
       THEN req' = [req EXCEPT ![r].pc = "reauth-factor"]
       ELSE Finish(r, req[r])
    /\ UNCHANGED <<db, Clocks, issued, ops, Ghosts>>

ConsumeFactor(r, code) ==
    LET a == db.acct[req[r].who]
    IN /\ At(r, "reauth-factor")
       /\ IF ~a.off /\ a.mfa # 0 /\ Accepts(a, code)
          THEN Answers(r, Consume(db, req[r].who, code)) /\ Record(a.mfa, code)
          ELSE Answers(r, db) /\ UNCHANGED Ghosts

\* CreatePersonalToken and RevokePersonalToken; one token an account here.
WithToken(d, a) ==
    IF d.acct[a].off THEN d ELSE [d EXCEPT !.pat = @ \cup {[acct |-> a, live |-> TRUE]}]

WithoutToken(d, a) ==
    [d EXCEPT !.pat = {IF p.acct = a THEN [p EXCEPT !.live = FALSE] ELSE p : p \in @}]

CreatePersonalToken(r) ==
    At(r, "token") /\ Answers(r, WithToken(db, req[r].who)) /\ UNCHANGED Ghosts

RevokePersonalToken(r) ==
    At(r, "untoken") /\ Answers(r, WithoutToken(db, req[r].who)) /\ UNCHANGED Ghosts

-----------------------------------------------------------------------------
(* The process, the command line and the backup.                           *)

Tick == now < MaxTime /\ now' = now + 1 /\ UNCHANGED <<db, archive, req, issued, ops, Ghosts>>

\* A challenge or a session runs out; the store deletes expired rows.
Expire ==
    /\ ops < MaxOps
    /\ ops' = ops + 1
    /\ \/ \E c \in db.chal : db' = [db EXCEPT !.chal = @ \ {c}]
       \/ \E t \in DOMAIN db.sess : db' = DeleteSessions(db, {t})
    /\ UNCHANGED <<Clocks, req, issued, Ghosts>>

Stopped == [r \in Requests |-> NoRequest]

Restart ==
    /\ req # Stopped
    /\ req' = Stopped
    /\ UNCHANGED <<db, Clocks, issued, ops, Ghosts>>

\* ResetLocalFactors: one transaction.
Recovered(d, a, factors, pw) ==
    LET keyed == IF "password" \in factors THEN SetPassword(d, a, pw) ELSE d
        bare == IF "mfa" \in factors THEN WithoutFactor(keyed, a) ELSE keyed
    IN InvalidateIdentity(bare, a)

\* The recovery command, which the installation lock keeps from a running server.
ResetLocalFactors(a, factors, pw) ==
    /\ req = Stopped
    /\ ops < MaxOps
    /\ ops' = ops + 1
    /\ Exists(a)
    /\ db' = Recovered(db, a, factors, pw)
    /\ UNCHANGED <<Clocks, req, issued, Ghosts>>

Backup ==
    /\ ops < MaxOps
    /\ ops' = ops + 1
    /\ archive' = db
    /\ UNCHANGED <<db, now, req, issued, Ghosts>>

\* clearDatabaseSessions on the archived database before it is put in place.
\* The exclusive lease waits for every handler; a commit that follows its
\* handler finds its database closed.
Cleared(d) ==
    LET gone == DeleteSessions(d, DOMAIN d.sess)
        kept(a) == [a EXCEPT !.pending = 0, !.codes = {}, !.gen = @ + 1,
                             !.last = Max({@, now + 1})]
    IN [gone EXCEPT !.acct = [a \in Accounts |-> IF d.acct[a].role = "none" THEN NoAccount
                                                 ELSE kept(d.acct[a])],
                    !.chal = {}, !.pat = {}, !.epoch = db.epoch + 1]

Restore ==
    /\ Exists(1)
    /\ \A r \in Requests : req[r].pc \in {"idle", "commit"}
    /\ ops < MaxOps
    /\ ops' = ops + 1
    /\ db' = Cleared(archive)
    /\ req' = Stopped
    /\ UNCHANGED <<Clocks, issued, Ghosts>>

-----------------------------------------------------------------------------

SignIn(r) ==
    \/ \E pw \in Passwords : Setup(r, pw)
    \/ \E t \in Cookies, a \in Accounts, pw \in Passwords : LoginPrepare(r, t, a, pw)
    \/ LoginPassword(r)
    \/ LoginFactor(r)
    \/ \E t \in Cookies, c \in db.chal, code \in Codes : CompleteLoginChallenge(r, t, c, code)
    \/ Stage(r)
    \/ Commit(r)

Operate(r) ==
    \/ \E t \in DOMAIN db.sess, op \in Operations : Gate(r, t, op)
    \/ Page(r) \/ Logout(r) \/ ClearOwn(r) \/ ClearAll(r)
    \/ ClearOtherSessions(r) \/ RevokeSession(r)
    \/ \E pw \in Passwords : VerifyPassword(r, pw) \/ ReauthPassword(r, pw)
    \/ \E pw \in Passwords, invalidate \in BOOLEAN : UpdatePasswordHash(r, pw, invalidate)
    \/ \E a \in Accounts, role \in Roles, off \in BOOLEAN : UpdateAccount(r, a, role, off)
    \/ \E a \in Accounts, pw \in Passwords, role \in Roles : CreateAccount(r, a, pw, role)
    \/ BeginMFA(r) \/ DisableMFA(r)
    \/ \E step \in Codes \ {RecoveryCode} : ConfirmMFA(r, step)
    \/ \E code \in Codes : ConsumeFactor(r, code)
    \/ CreatePersonalToken(r) \/ RevokePersonalToken(r)

Next ==
    \/ \E r \in Requests : SignIn(r) \/ Operate(r)
    \/ \E a \in Accounts, factors \in SUBSET {"password", "mfa"} \ {{}}, pw \in Passwords :
         ResetLocalFactors(a, factors, pw)
    \/ Tick \/ Expire \/ Restart \/ Backup \/ Restore

Spec == Init /\ [][Next]_vars

-----------------------------------------------------------------------------

\* Whatever a late commit, a revocation, a change of role or factor, a recovery
\* or a restore did to each other, the stored sessions are those of enabled
\* accounts, of their present generation and of this installation, no deleted
\* token is among them, and no live personal token is a disabled account's
\* (revocationAwareSessionStore.Commit, the triggers of ensureIdentitySchema).
SessionsAreCurrent ==
    /\ DOMAIN db.sess \cap db.tomb = {}
    /\ \A t \in DOMAIN db.sess : LET s == db.sess[t]
         IN s.acct # 0 => /\ ~db.acct[s.acct].off
                          /\ s.gen = db.acct[s.acct].gen
                          /\ s.epoch = db.epoch
    /\ \A p \in db.pat : p.live => ~db.acct[p.acct].off

IssuesFromCurrentFactors ==
    \A r \in Requests : LET q == req[r] s == q.data
      IN /\ q.pc = "commit" /\ q.pw # 0 /\ s.user = s.acct
         /\ q.tok \in DOMAIN db'.sess \ DOMAIN db.sess
         => q.pw = db.acct[s.acct].pw /\ q.factor = db.acct[s.acct].mfa

\* A session comes into being only for an account whose password and factor are,
\* at that moment, still the ones its login verified, however long ago it did so
\* and in however many requests (PrepareAccountAuthentication, StageIdentity,
\* CompleteLoginChallenge and Commit hold on to the generations between them);
\* and no one-time code is taken twice: not by two logins, not by a login and a
\* confirmation of identity, not by the enrollment it ended, and not after an
\* older database, which does not know of it, was restored (consumeFactorTx,
\* ConfirmMFA, clearDatabaseSessions).
FactorsAreCurrentAndUnspent ==
    [][~replayed' /\ IssuesFromCurrentFactors]_vars
====
