------------------------------ MODULE Accounts ------------------------------
(***************************************************************************)
(* Accounts: registration by phone with a code and an invite, login and    *)
(* binding through WeChat, binding and unbinding of phones, and what the   *)
(* administrators change beside them.  A handler is a request that reads   *)
(* rows in some steps and writes them in later ones; two of them overlap.  *)
(* User names are checked and indexed as the phones are, and left out.     *)
(* The table of users has a unique index on the phone, which also covers   *)
(* the rows that are only marked as deleted, and none on the open id.      *)
(***************************************************************************)
EXTENDS Naturals, FiniteSets

CONSTANTS
    Phones,         \* phone numbers
    OpenIds,        \* WeChat open ids
    Calls,          \* requests that can be under way at the same time
    MaxUsers,       \* bound: rows of the table of users
    MaxCodes,       \* bound: codes that are sent
    MaxCalls,       \* bound: requests that are made
    MaxAdmin,       \* bound: what administrators do to users and to the invite
    MaxTries,       \* wrong entries after which a code is refused
    Quota,          \* registrations the invite is good for, 0 for no limit
    Nobody          \* no phone, no open id, no code

ASSUME AccountsAssumption ==
    /\ {MaxUsers, MaxCodes, MaxCalls, MaxAdmin, Quota} \subseteq Nat /\ MaxTries \in Nat \ {0}
    /\ IsFiniteSet(Calls) /\ OpenIds # {}

Users    == 1..MaxUsers
Codes    == 1..MaxCodes
Purposes == {"register", "reset_password", "bind_phone"}
Bonus    == 5

VARIABLES
    user,       \* rows of users, unmade, live or marked as deleted
    session,    \* how many sessions a user has, up to 2
    code,       \* codes sent by text message, the newest last
    call,       \* requests under way
    invite,     \* the row of the invite
    redeemed,   \* users whose registration redeemed the invite
    overwrote,  \* history: an edit of the invite overwrote a redemption
    calls, admin    \* counters of what was done

accounts == <<user, session, code, call, invite, redeemed, overwrote, calls, admin>>

NoUser  == [state |-> "unmade", phone |-> Nobody, open |-> Nobody, credits |-> 0, consents |-> FALSE]
NoCode  == [phone |-> Nobody, purpose |-> "register", age |-> "new", tries |-> 0, consumed |-> FALSE]
NoCall  == [kind |-> "none", at |-> "off", phone |-> Nobody, open |-> Nobody, user |-> 0,
            code |-> 0, invited |-> FALSE]

LiveUsers    == {u \in Users : user[u].state = "live"}
UnmadeUsers  == {u \in Users : user[u].state = "unmade"}

(* The accounts a query finds: rows marked as deleted are left out.        *)
OwnersOf(p) == {u \in LiveUsers : user[u].phone = p}
OpenedBy(o) == {u \in LiveUsers : user[u].open = o}

(* A mutant: the table of users has no unique index.                       *)
NotIndexed(p, u) == FALSE

(* What the unique index on the phone refuses: any other row with it.      *)
PhoneIndexed(p, u) == \E v \in Users \ {u} :
    p # Nobody /\ user[v].state # "unmade" /\ user[v].phone = p

Serves(u) == u \in LiveUsers /\ session[u] > 0

IssueSession(u) == session' = [session EXCEPT ![u] = IF @ < 2 THEN @ + 1 ELSE @]

CallAt(c, kind, at) == call[c].kind = kind /\ call[c].at = at
CallGoesTo(c, at)       == call' = [call EXCEPT ![c].at = at]
EndCall(c)          == call' = [call EXCEPT ![c] = NoCall]

(* A request of a kind starts at its first step.                           *)
StartCall(c, new) ==
    /\ call[c] = NoCall /\ calls < MaxCalls
    /\ calls' = calls + 1
    /\ call' = [call EXCEPT ![c] = new]

AccountsInit ==
    /\ user \in [Users -> {NoUser, [NoUser EXCEPT !.state = "live", !.open = CHOOSE o \in OpenIds : TRUE, !.credits = Bonus]}]
    /\ \A u \in Users : user[u].state = "live" => u = 1
    /\ session = [u \in Users |-> IF u \in LiveUsers THEN 1 ELSE 0]
    /\ code = [n \in Codes |-> NoCode]
    /\ call = [c \in Calls |-> NoCall]
    /\ invite = [active |-> TRUE, quota |-> Quota, used |-> 0]
    /\ redeemed = {} /\ overwrote = FALSE
    /\ calls = 0 /\ admin = 0
-----------------------------------------------------------------------------
(* Codes by text message.                                                  *)

(* The newest code of a phone was sent less than a minute ago.             *)
SendLimited(p) == \E n \in Codes : code[n].phone = p /\ code[n].age = "new"

FitsPurpose(p, purpose) == IF purpose = "reset_password" THEN OwnersOf(p) # {} ELSE OwnersOf(p) = {}

(* A code is asked for: the phone has to fit the purpose and the limits    *)
(* must not be reached.                                                    *)
AskCode(c) == \E p \in Phones, purpose \in Purposes :
    /\ StartCall(c, [NoCall EXCEPT !.kind = purpose, !.at = "send", !.phone = p])
    /\ FitsPurpose(p, purpose) /\ ~SendLimited(p)
    /\ UNCHANGED <<user, session, code, invite, redeemed, overwrote, admin>>

(* The message goes out, then the code is stored; or it is not sent.       *)
StoreCode(c) ==
    /\ call[c].at = "send" /\ EndCall(c)
    /\ \/ UNCHANGED code
       \/ \E n \in Codes :
            /\ code[n].phone = Nobody /\ \A m \in 1..(n - 1) : code[m].phone # Nobody
            /\ code' = [code EXCEPT ![n] = [NoCode EXCEPT !.phone = call[c].phone, !.purpose = call[c].kind]]
    /\ UNCHANGED <<user, session, invite, redeemed, overwrote, calls, admin>>

OlderAge(age) == IF age = "new" THEN "valid" ELSE "expired"

(* Time passes for a code: the next may be sent, then it is out of date.   *)
AgeCode(n) ==
    /\ code[n].phone # Nobody /\ code[n].age # "expired"
    /\ code' = [code EXCEPT ![n].age = OlderAge(@)]
    /\ UNCHANGED <<user, session, call, invite, redeemed, overwrote, calls, admin>>

PendingCodes(p, purpose) == {n \in Codes : code[n].phone = p /\ code[n].purpose = purpose /\ ~code[n].consumed}
NewestOf(S) == CHOOSE n \in S : \A m \in S : m <= n

(* Entries of a code are compared until too many were wrong.               *)
TriesLeft(n) == code[n].tries < MaxTries

(* consumeVerificationCode reads the newest code of the phone that is not  *)
(* consumed, and compares; what it does about it are later statements.     *)
ReadCode(c) ==
    LET S == PendingCodes(call[c].phone, call[c].kind)
        n == NewestOf(S)
    IN  /\ call[c].at = "code"
        /\ IF S = {} \/ (S # {} /\ ~TriesLeft(n))
           THEN EndCall(c)
           ELSE \/ /\ code[n].age # "expired"
                   /\ call' = [call EXCEPT ![c].at = "consume", ![c].code = n]
                \/ call' = [call EXCEPT ![c].at = "miss", ![c].code = n]
        /\ UNCHANGED <<user, session, code, invite, redeemed, overwrote, calls, admin>>

(* A wrong or late entry is counted.                                       *)
CountMiss(c) ==
    /\ call[c].at = "miss" /\ EndCall(c)
    /\ code' = [code EXCEPT ![call[c].code].tries = @ + 1]
    /\ UNCHANGED <<user, session, invite, redeemed, overwrote, calls, admin>>

AfterCode(c) ==
    IF call[c].kind # "register" THEN "write" ELSE IF call[c].invited THEN "invite" ELSE "create"

(* It is marked as consumed without a look at what became of it.           *)
ConsumeCode(c) ==
    /\ call[c].at = "consume" /\ CallGoesTo(c, AfterCode(c))
    /\ code' = [code EXCEPT ![call[c].code].consumed = TRUE]
    /\ UNCHANGED <<user, session, invite, redeemed, overwrote, calls, admin>>
-----------------------------------------------------------------------------
(* Registration by phone.                                                  *)

Register(c) == \E p \in Phones, i \in BOOLEAN :
    /\ StartCall(c, [NoCall EXCEPT !.kind = "register", !.at = "code", !.phone = p, !.invited = i])
    /\ OwnersOf(p) = {}
    /\ UNCHANGED <<user, session, code, invite, redeemed, overwrote, admin>>

(* Invite.ValidateAvailability; time limits are part of active.            *)
InviteAvailable == invite.active /\ (invite.quota > 0 => invite.used < invite.quota)

ReadInvite(c) ==
    /\ CallAt(c, "register", "invite")
    /\ IF InviteAvailable THEN CallGoesTo(c, "create") ELSE EndCall(c)
    /\ UNCHANGED <<user, session, code, invite, redeemed, overwrote, calls, admin>>

(* A mutant: the bonus is forgotten.                                       *)
WithoutBonus(phone, open, consents) ==
    [state |-> "live", phone |-> phone, open |-> open, credits |-> 0, consents |-> consents]

NewAccount(phone, open, consents) ==
    [state |-> "live", phone |-> phone, open |-> open, credits |-> Bonus, consents |-> consents]

(* One transaction: the row of the user, its bonus and its consents, the   *)
(* count of the invite and the redemption.  The index may refuse the row.  *)
CreateUser(c) == \E u \in UnmadeUsers :
    /\ CallAt(c, "register", "create") /\ u = Cardinality(Users \ UnmadeUsers) + 1 /\ EndCall(c)
    /\ IF PhoneIndexed(call[c].phone, u)
       THEN UNCHANGED <<user, session, invite, redeemed>>
       ELSE /\ user' = [user EXCEPT ![u] = NewAccount(call[c].phone, Nobody, TRUE)]
            /\ IssueSession(u)
            /\ IF call[c].invited
               THEN invite' = [invite EXCEPT !.used = @ + 1] /\ redeemed' = redeemed \cup {u}
               ELSE UNCHANGED <<invite, redeemed>>
    /\ UNCHANGED <<code, overwrote, calls, admin>>
-----------------------------------------------------------------------------
(* Login through WeChat, and bindings.                                     *)

(* An account is looked up by its open id and made when there is none.     *)
WechatLogin(c) == \E o \in OpenIds :
    /\ calls < MaxCalls /\ call[c] = NoCall
    /\ IF OpenedBy(o) # {}
       THEN \E u \in OpenedBy(o) : IssueSession(u) /\ calls' = calls + 1 /\ UNCHANGED call
       ELSE StartCall(c, [NoCall EXCEPT !.kind = "wechat", !.at = "create", !.open = o]) /\ UNCHANGED session
    /\ UNCHANGED <<user, code, invite, redeemed, overwrote, admin>>

(* With a phone: the account of the open id gets the phone when neither    *)
(* is taken, or the account of the phone gets the open id, or one is made. *)
WechatPhoneLogin(c) == \E o \in OpenIds, p \in Phones :
    LET asked == [NoCall EXCEPT !.kind = "wechat", !.phone = p, !.open = o]
    IN  /\ calls < MaxCalls /\ call[c] = NoCall
        /\ \/ \E u \in OpenedBy(o) :
                IF user[u].phone = Nobody /\ OwnersOf(p) = {}
                THEN StartCall(c, [asked EXCEPT !.at = "write", !.open = Nobody, !.user = u]) /\ UNCHANGED session
                ELSE IssueSession(u) /\ calls' = calls + 1 /\ UNCHANGED call
           \/ /\ OpenedBy(o) = {}
              /\ \/ /\ OwnersOf(p) = {}
                    /\ StartCall(c, [asked EXCEPT !.at = "create"]) /\ UNCHANGED session
                 \/ \E u \in OwnersOf(p) :
                    /\ user[u].open = Nobody
                    /\ StartCall(c, [asked EXCEPT !.at = "write", !.phone = Nobody, !.user = u]) /\ UNCHANGED session
        /\ UNCHANGED <<user, code, invite, redeemed, overwrote, admin>>

CreateWechatUser(c) == \E u \in UnmadeUsers :
    /\ CallAt(c, "wechat", "create") /\ u = Cardinality(Users \ UnmadeUsers) + 1 /\ EndCall(c)
    /\ IF PhoneIndexed(call[c].phone, u)
       THEN UNCHANGED <<user, session>>
       ELSE /\ user' = [user EXCEPT ![u] = NewAccount(call[c].phone, call[c].open, FALSE)]
            /\ IssueSession(u)
    /\ UNCHANGED <<code, invite, redeemed, overwrote, calls, admin>>

(* A user with no phone binds one, with a code of its own.                 *)
BindPhone(c) == \E u \in LiveUsers, p \in Phones :
    /\ Serves(u) /\ user[u].phone = Nobody /\ OwnersOf(p) = {}
    /\ StartCall(c, [NoCall EXCEPT !.kind = "bind_phone", !.at = "code", !.phone = p, !.user = u])
    /\ UNCHANGED <<user, session, code, invite, redeemed, overwrote, admin>>

(* A user binds the phone WeChat names, and the open id if it has none.    *)
BindWechatPhone(c) == \E u \in LiveUsers, p \in Phones, o \in OpenIds :
    /\ Serves(u) /\ user[u].phone = Nobody
    /\ OwnersOf(p) \subseteq {u} /\ user[u].open \in {Nobody, o} /\ OpenedBy(o) \subseteq {u}
    /\ StartCall(c, [NoCall EXCEPT !.kind = "bind", !.at = "write", !.user = u, !.phone = p,
                               !.open = IF user[u].open = Nobody THEN o ELSE Nobody])
    /\ UNCHANGED <<user, session, code, invite, redeemed, overwrote, admin>>

(* A user, or an administrator for it, binds an open id that is free.      *)
BindWechat(c) == \E u \in LiveUsers, o \in OpenIds, by \in {"bind", "admin"} :
    /\ by = "bind" => Serves(u)
    /\ OpenedBy(o) \subseteq {u}
    /\ StartCall(c, [NoCall EXCEPT !.kind = by, !.at = "write", !.user = u, !.open = o])
    /\ UNCHANGED <<user, session, code, invite, redeemed, overwrote, admin>>

KeptUnless(new, old) == IF new = Nobody THEN old ELSE new

(* The update writes the columns it names; the index may refuse the phone, *)
(* and a row marked as deleted is not updated.                             *)
WriteBinding(c) ==
    LET u == call[c].user
        b == call[c]
    IN  /\ b.at = "write" /\ b.kind \in {"wechat", "bind", "admin", "bind_phone"} /\ EndCall(c)
        /\ IF u \in LiveUsers /\ ~PhoneIndexed(b.phone, u)
           THEN user' = [user EXCEPT ![u].phone = KeptUnless(b.phone, @), ![u].open = KeptUnless(b.open, @)]
           ELSE UNCHANGED user
        /\ IF b.kind = "wechat" /\ (u \in LiveUsers => ~PhoneIndexed(b.phone, u)) THEN IssueSession(u) ELSE UNCHANGED session
        /\ UNCHANGED <<code, invite, redeemed, overwrote, calls, admin>>

(* A password is reset with a code: all sessions of the account go.        *)
ResetPassword(c) == \E p \in Phones : \E u \in OwnersOf(p) :
    /\ StartCall(c, [NoCall EXCEPT !.kind = "reset_password", !.at = "code", !.phone = p, !.user = u])
    /\ UNCHANGED <<user, session, code, invite, redeemed, overwrote, admin>>

SavePassword(c) ==
    /\ CallAt(c, "reset_password", "write") /\ EndCall(c)
    /\ session' = [session EXCEPT ![call[c].user] = 0]
    /\ UNCHANGED <<user, code, invite, redeemed, overwrote, calls, admin>>

(* Login with a password, logout, and the end of the other sessions.       *)
Login(c) == \E u \in LiveUsers :
    /\ call[c] = NoCall /\ calls < MaxCalls /\ calls' = calls + 1 /\ session[u] = 0
    /\ IssueSession(u)
    /\ UNCHANGED <<user, code, call, invite, redeemed, overwrote, admin>>

LeaveSession(u, left) ==
    /\ Serves(u) /\ left < session[u]
    /\ session' = [session EXCEPT ![u] = left]
    /\ UNCHANGED <<user, code, call, invite, redeemed, overwrote, calls, admin>>

Logout(u)    == LeaveSession(u, session[u] - 1)
EndOthers(u) == LeaveSession(u, 1)

UnbindPhone(u) ==
    /\ Serves(u) /\ user[u].phone # Nobody
    /\ user' = [user EXCEPT ![u].phone = Nobody]
    /\ UNCHANGED <<session, code, call, invite, redeemed, overwrote, calls, admin>>
-----------------------------------------------------------------------------
(* Administrators.                                                         *)

Administer == admin < MaxAdmin /\ admin' = admin + 1

AdminUnbind(u) ==
    /\ Administer /\ u \in LiveUsers
    /\ \/ user[u].phone # Nobody /\ user' = [user EXCEPT ![u].phone = Nobody]
       \/ user' = [user EXCEPT ![u].open = Nobody]
    /\ UNCHANGED <<session, code, call, invite, redeemed, overwrote, calls>>

(* Users are marked as deleted, all or none; their sessions go.            *)
DeleteUsers(S) ==
    /\ Administer /\ S # {} /\ S \subseteq LiveUsers
    /\ user' = [u \in Users |-> IF u \in S THEN [user[u] EXCEPT !.state = "deleted"] ELSE user[u]]
    /\ session' = [u \in Users |-> IF u \in S THEN 0 ELSE session[u]]
    /\ UNCHANGED <<code, call, invite, redeemed, overwrote, calls>>

AdminResetPassword(u) ==
    /\ Administer /\ u \in LiveUsers
    /\ session' = [session EXCEPT ![u] = 0]
    /\ UNCHANGED <<user, code, call, invite, redeemed, overwrote, calls>>

(* The edit of an invite reads the row and later saves all of it.          *)
ReadInviteRow(c) ==
    /\ Administer /\ call[c] = NoCall
    /\ call' = [call EXCEPT ![c] = [NoCall EXCEPT !.kind = "invite", !.at = "save", !.code = invite.used]]
    /\ UNCHANGED <<user, session, code, invite, redeemed, overwrote, calls>>

SaveInvite(c) == \E active \in BOOLEAN, quota \in {invite.quota, invite.quota + 1} :
    /\ CallAt(c, "invite", "save") /\ EndCall(c)
    /\ invite' = [active |-> active, quota |-> quota, used |-> call[c].code]
    /\ overwrote' = (overwrote \/ invite.used # call[c].code)
    /\ UNCHANGED <<user, session, code, redeemed, calls, admin>>
-----------------------------------------------------------------------------
AccountsNext ==
    \/ \E c \in Calls :
        \/ AskCode(c) \/ StoreCode(c) \/ ReadCode(c) \/ CountMiss(c) \/ ConsumeCode(c)
        \/ Register(c) \/ ReadInvite(c) \/ CreateUser(c)
        \/ WechatLogin(c) \/ WechatPhoneLogin(c) \/ CreateWechatUser(c)
        \/ BindPhone(c) \/ BindWechatPhone(c) \/ BindWechat(c) \/ WriteBinding(c)
        \/ ResetPassword(c) \/ SavePassword(c) \/ Login(c)
        \/ ReadInviteRow(c) \/ SaveInvite(c)
    \/ \E n \in Codes : AgeCode(n)
    \/ \E u \in Users : Logout(u) \/ EndOthers(u) \/ UnbindPhone(u) \/ AdminUnbind(u) \/ AdminResetPassword(u)
    \/ \E S \in SUBSET Users : DeleteUsers(S)

AccountsSpec == AccountsInit /\ [][AccountsNext]_accounts
-----------------------------------------------------------------------------
(* The types.  Every account has the bonus of its registration once, and   *)
(* entries that overlap exceed the allowed tries of a code by less than    *)
(* their number.                                                           *)
AccountsTypeOK ==
    /\ \A u \in Users : /\ user[u].state \in {"unmade", "live", "deleted"}
                        /\ user[u].phone \in Phones \cup {Nobody}
                        /\ user[u].open \in OpenIds \cup {Nobody}
                        /\ user[u].credits = (IF user[u].state = "unmade" THEN 0 ELSE Bonus)
    /\ session \in [Users -> 0..2]
    /\ \A n \in Codes : code[n].tries < MaxTries + Cardinality(Calls)
    /\ \A c \in Calls : call[c].user \in 0..MaxUsers
    /\ redeemed \subseteq Users /\ overwrote \in BOOLEAN
    /\ calls \in 0..MaxCalls /\ admin \in 0..MaxAdmin

(* Two accounts never have the same phone, however registrations, logins   *)
(* and bindings overlap: each looks whether the phone is free, and what it *)
(* saw may be out of date when it writes.                                  *)
OneAccountPerPhone == \A u, v \in LiveUsers : user[u].phone = user[v].phone /\ user[u].phone # Nobody => u = v

(* The count of an invite is the number of its redemptions, unless an edit *)
(* of the invite saved an older count over it.                             *)
InvitesAddUp == ~overwrote => invite.used = Cardinality(redeemed)

(* Registrations leave accounts, phones and invites consistent.            *)
RegistrationsAddUp == OneAccountPerPhone /\ InvitesAddUp
=============================================================================
