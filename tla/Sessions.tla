------------------------------ MODULE Sessions ------------------------------
(***************************************************************************)
(* What keeps a user signed in: cookies (routers/auth.py, core/security.py *)
(* and get_current_user in dependencies.py) and API tokens (services/      *)
(* access_tokens.py, routers/access.py), for one user with several         *)
(* browsers and pipelines.  A cookie is a signed expiry time: the server   *)
(* keeps nothing of it, only when the user was last seen.                  *)
(***************************************************************************)
EXTENDS Naturals, FiniteSets

CONSTANTS
    Browsers,     \* browsers of the user
    ApiTokens,       \* API tokens that may be minted
    Scopes,     \* global permission keys
    AccessTTL, RefreshTTL, IdleTimeout,  \* settings, in ticks
    MaxTime       \* bound: ticks

ASSUME TimesAssumption == {AccessTTL, RefreshTTL, IdleTimeout, MaxTime} \subseteq Nat \ {0}

Time == 0 .. MaxTime
Cookie == 0 .. MaxTime + RefreshTTL + AccessTTL    \* 0: no cookie
NoToken == [state |-> "none"]
Token == [state : {"live", "revoked"}, scopes : SUBSET Scopes, expires : Cookie,
          used : BOOLEAN]

VARIABLES
    now,
    active, perms,    \* the user row: is_active and the permissions of its roles
    lastSeen,         \* users.last_seen_at
    access, refresh,  \* the two cookies of each browser: when they expire
    tokens,           \* access_tokens of the user
    signedIn          \* history: when a password was last presented

sessionsVars == <<now, active, perms, lastSeen, access, refresh, tokens, signedIn>>
cookies == <<access, refresh>>
account == <<active, perms>>

-----------------------------------------------------------------------------
Bigger(a, b) == IF a >= b THEN a ELSE b
Valid(expiry) == expiry > now

\* The password was right (LoginThrottle): both cookies are issued, and the
\* login itself does not count as being seen.
Login(b) ==
    /\ active
    /\ access' = [access EXCEPT ![b] = now + AccessTTL]
    /\ refresh' = [refresh EXCEPT ![b] = now + RefreshTTL]
    /\ signedIn' = now
    /\ UNCHANGED <<now, account, lastSeen, tokens>>

Logout(b) ==
    /\ access' = [access EXCEPT ![b] = 0]
    /\ refresh' = [refresh EXCEPT ![b] = 0]
    /\ UNCHANGED <<now, account, lastSeen, tokens, signedIn>>

\* get_current_user on the cookie path (a tick is longer than a minute).
Request(b) ==
    /\ Valid(access[b]) /\ active
    /\ lastSeen' = now
    /\ UNCHANGED <<now, account, cookies, tokens, signedIn>>

Idle == now - lastSeen > IdleTimeout

Refresh(b) ==
    /\ Valid(refresh[b]) /\ active /\ ~Idle
    /\ access' = [access EXCEPT ![b] = now + AccessTTL]
    /\ refresh' = [refresh EXCEPT ![b] = now + RefreshTTL]
    /\ UNCHANGED <<now, account, lastSeen, tokens, signedIn>>

\* A fault: the idle time is not enforced.
RefreshWhenIdleExtends(b) ==
    /\ Valid(refresh[b]) /\ active /\ Idle
    /\ access' = [access EXCEPT ![b] = now + AccessTTL]
    /\ UNCHANGED <<now, account, lastSeen, refresh, tokens, signedIn>>

\* The refusal is an HTTPException, and takes nothing of the response along: the
\* cookies it deletes there stay in the browser.
RefreshWhenIdle(b) ==
    /\ Valid(refresh[b]) /\ active /\ Idle
    /\ UNCHANGED sessionsVars

-----------------------------------------------------------------------------
(* API tokens.  A token's authority is worked out anew at every use. *)

CreateToken(t) ==
    /\ tokens[t] = NoToken /\ active /\ "access:write" \in perms
    /\ \E s \in SUBSET Scopes, e \in {now + RefreshTTL} :
          tokens' = [tokens EXCEPT ![t] = [state |-> "live", scopes |-> s,
                                              expires |-> e, used |-> FALSE]]
    /\ UNCHANGED <<now, account, lastSeen, cookies, signedIn>>

RevokeToken(t) ==
    /\ tokens[t] # NoToken /\ tokens[t].state = "live" /\ active /\ "access:write" \in perms
    /\ tokens' = [tokens EXCEPT ![t].state = "revoked"]
    /\ UNCHANGED <<now, account, lastSeen, cookies, signedIn>>

Resolves(t) ==
    /\ tokens[t] # NoToken
    /\ tokens[t].state = "live" /\ Valid(tokens[t].expires) /\ active

\* What a resolved token may do; no scopes mean all of its owner's.
Authority(t) ==
    IF tokens[t].scopes = {} THEN perms ELSE perms \intersect tokens[t].scopes

\* A pipeline's request, behind RequirePermission; it does not count as the
\* user being seen.
UseToken(t) ==
    /\ Resolves(t) /\ Authority(t) # {}
    /\ tokens' = [tokens EXCEPT ![t].used = TRUE]
    /\ UNCHANGED <<now, account, lastSeen, cookies, signedIn>>

-----------------------------------------------------------------------------
\* The user row is edited by administrators and with the roles (AccessRules).
EditUser ==
    /\ active' \in BOOLEAN
    /\ perms' \in SUBSET Scopes
    /\ UNCHANGED <<now, lastSeen, cookies, tokens, signedIn>>

Tick ==
    /\ now < MaxTime /\ now' = now + 1
    /\ UNCHANGED <<account, lastSeen, cookies, tokens, signedIn>>

SessionsInit ==
    /\ now = 0 /\ active = TRUE /\ perms = Scopes /\ lastSeen = 0 /\ signedIn = 0
    /\ access = [b \in Browsers |-> 0] /\ refresh = [b \in Browsers |-> 0]
    /\ tokens = [t \in ApiTokens |-> NoToken]

SessionsNext ==
    \/ \E b \in Browsers : \/ Login(b) \/ Logout(b) \/ Request(b)
                           \/ Refresh(b) \/ RefreshWhenIdle(b)
    \/ \E t \in ApiTokens : CreateToken(t) \/ RevokeToken(t) \/ UseToken(t)
    \/ EditUser \/ Tick

SessionsSpec == SessionsInit /\ [][SessionsNext]_sessionsVars

-----------------------------------------------------------------------------
SessionsTyped ==
    /\ {now, lastSeen, signedIn} \subseteq Time /\ active \in BOOLEAN /\ perms \subseteq Scopes
    /\ {access, refresh} \subseteq [Browsers -> Cookie]
    /\ tokens \in [ApiTokens -> {NoToken} \union Token]

(* Sign in again after being idle: whoever holds a working session was seen, *)
(* or gave a password, no longer ago than the idle timeout and the life of   *)
(* one access cookie together, however often the cookies were refreshed, by  *)
(* whatever browser, and whatever the user's tokens did meanwhile.           *)
IdleMeansSignIn ==
    \A b \in Browsers :
        Valid(access[b]) => now - Bigger(lastSeen, signedIn) <= IdleTimeout + AccessTTL
=============================================================================
