---------------------------------- MODULE Auth ----------------------------------
(***************************************************************************)
(* Sessions and password resets (src/app/services/auth.py).  Tokens are    *)
(* signed and not stored: the table "issued" is what clients hold.  Those  *)
(* that were revoked are stored, in "blocked", until they have expired.    *)
(* The purge of expired rows (src/app/lifespan.py) never commits.          *)
(*                                                                         *)
(* A day stands for the life of an access token, of a reset token and of a *)
(* one-time password; a refresh token lives for longer than the model.     *)
(***************************************************************************)
EXTENDS UnitOfWork

CONSTANTS Accounts, Tokens, Otps, Resets            \* ids

(* A token comes from a login, from a refresh token or from a one-time     *)
(* password; "commit" is the row that nobody can provide.                  *)
ASSUME AuthConstants == /\ "login" \notin Otps /\ Tokens \cap Otps = {}
                        /\ "commit" \notin Accounts

Until(kind) == IF kind = "refresh" THEN MaxDay + 1 ELSE today + 1
Token == [kind : {"access", "refresh", "reset"}, of : {"account"} \X Accounts,
          until : 0..(MaxDay + 1), from : {"login"} \cup Tokens \cup Otps]
Otp == [of : {"account"} \X Accounts, used : BOOLEAN, until : 0..(MaxDay + 1)]

AuthTypeOK == area = "auth" => /\ Table("account", Accounts, [active : BOOLEAN])
                               /\ Table("issued", Tokens, Token)
                               /\ Table("blocked", Tokens, [until : 0..(MaxDay + 1)])
                               /\ Table("otp", Otps, Otp)
                               /\ Table("reset", Resets, [with : Tokens])

AuthInit == Starts("auth", [account |-> [u \in Accounts |-> [active |-> TRUE]], issued |-> None,
                            blocked |-> None, otp |-> None, reset |-> None])

(* decode_token: signed by the server and not expired; then the blocklist, *)
(* and the account's status as it is now.                                  *)
Decodes(t, kind) == /\ t \in Keys("issued") /\ db.issued[t].kind = kind
                    /\ today < db.issued[t].until
AccountOf(t) == db.issued[t].of[2]
Accepted(t, kind) == /\ Decodes(t, kind)
                     /\ t \notin Keys("blocked")
                     /\ db.account[AccountOf(t)].active

Issue(kind, u, from) == [kind |-> kind, of |-> <<"account", u>>, until |-> Until(kind), from |-> from]
Block(T) == [t \in T |-> [until |-> db.issued[t].until]]
-----------------------------------------------------------------------------
Login(s, u, access, refresh) ==
    /\ db.account[u].active
    /\ access # refresh /\ Unused("issued", access) /\ Unused("issued", refresh)
    /\ Begin(s, [Work EXCEPT !.insert = [issued |->
           (access :> Issue("access", u, "login")) @@ (refresh :> Issue("refresh", u, "login"))]])

RefreshToken(s, r, access) ==
    /\ Accepted(r, "refresh") /\ Unused("issued", access)
    /\ Begin(s, [Work EXCEPT !.insert = [issued |-> access :> Issue("access", AccountOf(r), r)]])

(* logout: the access token, and the refresh token that comes with it if   *)
(* that can be decoded, are blocked.  When the refresh token was blocked   *)
(* before, its insert fails and so does the whole request.                 *)
Logout(s, t, refresh) ==
    LET out == {t} \cup {r \in refresh : Decodes(r, "refresh")} IN
    /\ Accepted(t, "access")
    /\ Begin(s, [Work EXCEPT !.insert = [blocked |-> Block(out)],
                             !.tell = {<<"left", r>> : r \in out}])

Pending(u) == {o \in Keys("otp") : db.otp[o].of = <<"account", u>> /\ ~db.otp[o].used}

(* forgot_password: the codes sent before are invalidated.                 *)
ForgotPassword(s, u, o) ==
    /\ db.account[u].active /\ Unused("otp", o)
    /\ Begin(s, [Work EXCEPT
           !.update = [otp |-> [q \in Pending(u) |-> [used |-> TRUE]]],
           !.insert = [otp |-> o :> [of |-> <<"account", u>>, used |-> FALSE, until |-> today + 1]]])

(* verify_otp: the latest valid code, here any, gives a reset token.       *)
ValidOtps(u) == {o \in Pending(u) : today < db.otp[o].until}
VerifyOtp(s, u, o, t) ==
    /\ o \in ValidOtps(u) /\ Unused("issued", t)
    /\ Begin(s, [Work EXCEPT !.update = [otp |-> o :> [used |-> TRUE]],
                             !.insert = [issued |-> t :> Issue("reset", u, o)]])

(* reset_password: the token is blocked with the change of the password.   *)
ResetPassword(s, t, z) ==
    /\ Accepted(t, "reset") /\ Unused("reset", z)
    /\ Begin(s, [Work EXCEPT !.insert = [reset |-> z :> [with |-> t], blocked |-> Block({t})]])

(* Accounts are activated and deactivated elsewhere (user.py, approval.py).*)
SetActive(s, u, active) ==
    /\ db.account[u].active # active
    /\ Begin(s, [Work EXCEPT !.update = [account |-> u :> [active |-> active]]])

(* _cleanup_loop: deletes in a session that is closed without a commit,    *)
(* which a row nobody can provide stands for.                              *)
Expired(t) == {k \in Keys(t) : db[t][k].until <= today}
CleanUp(s) ==
    /\ Expired("otp") \cup Expired("blocked") # {}
    /\ Begin(s, [Work EXCEPT !.drop = [otp |-> Expired("otp"), blocked |-> Expired("blocked")],
                             !.needs = {<<"account", "commit">>}])

AuthStep(s) ==
    /\ area = "auth"
    /\ \/ \E u \in Accounts, t, r \in Tokens : Login(s, u, t, r)
       \/ \E t, r \in Tokens : RefreshToken(s, r, t)
       \/ \E t \in Tokens, refresh \in {{}} \cup {{r} : r \in Tokens} : Logout(s, t, refresh)
       \/ \E u \in Accounts, o \in Otps : \/ ForgotPassword(s, u, o)
                                          \/ \E t \in Tokens : VerifyOtp(s, u, o, t)
       \/ \E t \in Tokens, z \in Resets : ResetPassword(s, t, z)
       \/ \E u \in Accounts, active \in BOOLEAN : SetActive(s, u, active)
       \/ CleanUp(s)
-----------------------------------------------------------------------------
(* A reset token changes the password once, even when two requests bring   *)
(* it at the same time; while handlers do not overlap, a code gives one    *)
(* reset token, and only the last code that was sent is valid.             *)
OneUse ==
    area = "auth" =>
        /\ \A y, z \in Keys("reset") : db.reset[y].with = db.reset[z].with => y = z
        /\ serial => \A t, r \in Keys("issued") :
               db.issued[t].from = db.issued[r].from /\ db.issued[t].from \in Otps => t = r
        /\ serial => \A u \in Accounts : Cardinality(ValidOtps(u)) <= 1
=============================================================================
