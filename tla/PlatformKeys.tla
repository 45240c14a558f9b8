---------------------------- MODULE PlatformKeys ----------------------------
(***************************************************************************)
(* platform/api: tenants, API keys and access tokens (admin.js and         *)
(* lib/auth.js): bootstrap of the platform key, tenants, issue and         *)
(* revocation of keys, tokens, and who may act in which tenant.            *)
(*                                                                         *)
(* Calls run side by side, in any isolate; each awaited statement is a     *)
(* step and may throw.  A secret is known to nobody but the caller that    *)
(* was answered with it: the table holds its hash.                         *)
(***************************************************************************)
EXTENDS Naturals, FiniteSets

CONSTANTS
  Call,        \* calls under way side by side, one operation each
  ApiKey,      \* key ids to be issued
  Tenant,      \* tenant ids to be created
  NoKey, NoTenant,
  MaxErrors,   \* bound: calls ended by a statement that threw
  MaxTokens    \* bound: tokens in use at a time

ASSUME KeyAssumption ==
  NoKey \notin ApiKey /\ NoTenant \notin Tenant /\ MaxErrors \in Nat /\ MaxTokens \in Nat

VARIABLES
  key,         \* key[k]: its row in api_keys
  tenant,      \* tenant[t]: absent, plain, or platform by its settings
  held,        \* keys whose secret a caller was given
  token,       \* access tokens minted and not expired
  call,        \* call[c]: the local state of a call
  rival        \* history: some bootstraps were past their check together

keyVars == <<key, tenant, held, token, call, rival>>

\* Of SCOPES, the one that opens operations here; every credential may have any
\* of the others.  igl.platform is none of them.
Scope == {"admin"}
PlatformScope == Scope \cup {"platform"}
CallOp == {"tenant", "issue", "revoke", "use"}   \* those that authenticate
NoRow == [status |-> "unused", tenant |-> NoTenant, scopes |-> {}]
NoCall == [op |-> "none", pc |-> "idle", key |-> NoKey, header |-> NoTenant, scopes |-> {},
           target |-> NoKey, grant |-> {}, active |-> FALSE]

KeyInit ==
  /\ key = [k \in ApiKey |-> NoRow]
  /\ tenant = [t \in Tenant |-> "absent"]
  /\ held = {} /\ token = {}
  /\ call = [c \in Call |-> NoCall]
  /\ rival = FALSE

Phase(c) == call[c].pc
To(c, pc) == call' = [call EXCEPT ![c].pc = pc]
\* An answer, a refusal included: the call is over and makes room for another.
Answered(c) == call' = [call EXCEPT ![c] = NoCall]
ActivePlatform == {k \in ApiKey : key[k].status = "active" /\ "platform" \in key[k].scopes}
FreshKey(k) == key[k].status = "unused" /\ \A c \in Call : call[c].target # k
FreshTenant(t) == tenant[t] = "absent" /\ \A c \in Call : call[c].header # t

-----------------------------------------------------------------------------
(* Bootstrap, by whoever has the bootstrap token. *)

Bootstrap(c) ==
  /\ Phase(c) = "idle"
  /\ call' = [call EXCEPT ![c] = [NoCall EXCEPT !.op = "bootstrap", !.pc = "check"]]
  /\ UNCHANGED <<key, tenant, held, token, rival>>
PastCheck == {c \in Call : call[c].op = "bootstrap"
                           /\ Phase(c) \in {"find tenant", "create tenant", "issue"}}
CheckBootstrapped(c) ==
  /\ Phase(c) = "check"
  /\ IF ActivePlatform # {} THEN Answered(c) /\ UNCHANGED rival
     ELSE To(c, "find tenant") /\ rival' = (rival \/ PastCheck # {})
  /\ UNCHANGED <<key, tenant, held, token>>
FindPlatformTenant(c) ==
  /\ Phase(c) = "find tenant"
  /\ IF \E t \in Tenant : tenant[t] = "platform"
     THEN \E t \in Tenant : tenant[t] = "platform"
            /\ call' = [call EXCEPT ![c].header = t, ![c].pc = "issue"]
     ELSE \E t \in Tenant : FreshTenant(t)
            /\ call' = [call EXCEPT ![c].header = t, ![c].pc = "create tenant"]
  /\ UNCHANGED <<key, tenant, held, token, rival>>

\* /sandbox/signup, by anybody: a tenant of its own and a key to it.
Signup(c) ==
  /\ Phase(c) = "idle"
  /\ \E t \in Tenant : FreshTenant(t)
       /\ call' = [call EXCEPT ![c] = [NoCall EXCEPT !.op = "signup", !.pc = "create tenant",
                     !.header = t, !.grant = Scope]]
  /\ UNCHANGED <<key, tenant, held, token, rival>>

\* createTenant(), for a bootstrap, a signup and /admin/tenants.
CreateTenant(c) ==
  /\ Phase(c) = "create tenant"
  /\ tenant' = [tenant EXCEPT ![call[c].header] =
                  IF call[c].op = "bootstrap" THEN "platform" ELSE "plain"]
  /\ To(c, "issue")
  /\ UNCHANGED <<key, held, token, rival>>
GrantedScopes(c) == IF call[c].op = "bootstrap" THEN PlatformScope ELSE call[c].grant
IssueKey(c) ==
  /\ Phase(c) = "issue"
  /\ \E k \in ApiKey : FreshKey(k)
       /\ key' = [key EXCEPT ![k] = [status |-> "active", tenant |-> call[c].header,
                                     scopes |-> GrantedScopes(c)]]
       /\ call' = [call EXCEPT ![c].target = k, ![c].pc = "answer"]
  /\ UNCHANGED <<tenant, held, token, rival>>
\* The audit entry, then the answer with the secret in it.
AnswerKey(c) ==
  /\ Phase(c) = "answer"
  /\ held' = held \cup {call[c].target}
  /\ Answered(c)
  /\ UNCHANGED <<key, tenant, token, rival>>

-----------------------------------------------------------------------------
(* Authentication, by a key or by a token minted for one. *)

\* A key is looked for among the active ones; a token that verifies names its
\* key, whose status is read as well.
KeyAdmitted(k) == key[k].status = "active"
ClientAdmitted(k) == key[k].status = "active"
Permitted(op, scopes, own, header) ==
  /\ "platform" \in scopes \/ CASE op \in {"issue", "revoke"} -> "admin" \in scopes
                                [] op = "tenant" -> FALSE
                                [] OTHER -> TRUE
  /\ header = own \/ ("platform" \in scopes /\ tenant[header] # "absent")
\* authenticate(): a caller that is not known or not permitted is answered at
\* once, and nothing changes.
Admit(c, op, k, scopes, own, header, known) ==
  /\ Phase(c) = "idle"
  /\ known /\ Permitted(op, scopes, own, header)
  /\ call' = [call EXCEPT ![c] = [NoCall EXCEPT !.op = op, !.key = k, !.header = header,
                !.scopes = scopes, !.active = (key[k].status = "active"),
                !.pc = CASE op = "tenant" -> "name tenant" [] op = "issue" -> "choose"
                         [] op = "revoke" -> "find key" [] OTHER -> "act"]]
  /\ UNCHANGED <<key, tenant, held, token, rival>>
AuthenticateKey(c, op) ==
  \E k \in held, header \in Tenant :
    Admit(c, op, k, key[k].scopes, key[k].tenant, header, KeyAdmitted(k))
AuthenticateToken(c, op) ==
  \E t \in token, header \in Tenant :
    Admit(c, op, t.key, t.scopes, t.tenant, header, ClientAdmitted(t.key))

Act(c) ==
  /\ Phase(c) = "act"
  /\ Answered(c)
  /\ UNCHANGED <<key, tenant, held, token, rival>>
NameTenant(c) ==
  /\ Phase(c) = "name tenant"
  /\ \E t \in Tenant : FreshTenant(t)
       /\ call' = [call EXCEPT ![c].header = t, ![c].grant = Scope, ![c].pc = "create tenant"]
  /\ UNCHANGED <<key, tenant, held, token, rival>>
ChooseAnyScopes(c) ==   \* Mutant: the scopes asked for are taken as they are.
  /\ Phase(c) = "choose"
  /\ \E asked \in SUBSET PlatformScope :
       call' = [call EXCEPT ![c].grant = asked, ![c].pc = "issue"]
  /\ UNCHANGED <<key, tenant, held, token, rival>>
\* /admin/keys: the scopes asked for that are among SCOPES, or a refusal if none is.
ChooseScopes(c) ==
  /\ Phase(c) = "choose"
  /\ \/ \E asked \in SUBSET PlatformScope :
          call' = [call EXCEPT ![c].grant = asked \cap Scope, ![c].pc = "issue"]
     \/ Answered(c)
  /\ UNCHANGED <<key, tenant, held, token, rival>>
\* /admin/keys/revoke: a key of the caller's tenant, or any for the platform.
FindKey(c) ==
  /\ Phase(c) = "find key"
  /\ \E k \in ApiKey :
       /\ key[k].status # "unused"
       /\ IF key[k].status = "active"
             /\ (key[k].tenant = call[c].header \/ "platform" \in call[c].scopes)
          THEN call' = [call EXCEPT ![c].target = k, ![c].pc = "revoke"]
          ELSE Answered(c)
  /\ UNCHANGED <<key, tenant, held, token, rival>>
RevokeKey(c) ==
  /\ Phase(c) = "revoke"
  /\ key' = [key EXCEPT ![call[c].target].status = "revoked"]
  /\ Answered(c)
  /\ UNCHANGED <<tenant, held, token, rival>>

\* POST /oauth2/token: the row by client id, the secret against its hash.
\* What is granted is what was asked for and the key has.
MintToken(c) ==
  /\ Phase(c) = "idle"
  /\ Cardinality(token) < MaxTokens
  /\ \E k \in held : \E granted \in SUBSET key[k].scopes :
       /\ key[k].status = "active"
       /\ token' = token \cup {[key |-> k, tenant |-> key[k].tenant, scopes |-> granted]}
  /\ UNCHANGED <<key, tenant, held, call, rival>>
ExpireToken ==
  /\ \E t \in token : token' = token \ {t}
  /\ UNCHANGED <<key, tenant, held, call, rival>>

\* What is left of a call that threw is the key it may have issued.
FailCall(c) ==
  /\ Cardinality({d \in Call : call[d].pc = "threw"}) < MaxErrors
  /\ Phase(c) \notin {"idle", "threw"}
  /\ call' = [call EXCEPT ![c] = [NoCall EXCEPT !.op = call[c].op,
                !.target = IF call[c].op = "revoke" THEN NoKey ELSE call[c].target, !.pc = "threw"]]
  /\ UNCHANGED <<key, tenant, held, token, rival>>

KeyNext ==
  \/ ExpireToken
  \/ \E c \in Call :
       \/ Bootstrap(c) \/ Signup(c) \/ CheckBootstrapped(c) \/ FindPlatformTenant(c)
       \/ CreateTenant(c) \/ IssueKey(c) \/ AnswerKey(c) \/ Act(c) \/ NameTenant(c) \/ ChooseScopes(c)
       \/ FindKey(c) \/ RevokeKey(c) \/ MintToken(c) \/ FailCall(c)
       \/ \E op \in CallOp : AuthenticateKey(c, op) \/ AuthenticateToken(c, op)

KeySpec == KeyInit /\ [][KeyNext]_keyVars

-----------------------------------------------------------------------------
(* Properties. *)

KeyTypes ==
  /\ \A k \in ApiKey : /\ key[k].status \in {"unused", "active", "revoked"}
                       /\ key[k].tenant \in Tenant \cup {NoTenant}
                       /\ key[k].scopes \subseteq PlatformScope
  /\ tenant \in [Tenant -> {"absent", "plain", "platform"}]
  /\ held \subseteq ApiKey

\* Bootstrap makes one platform key: there are two active only if two
\* bootstraps were past their check together.  A platform key comes from a
\* bootstrap and nowhere else, and lives in a platform tenant.
PlatformKeyIsOne ==
  /\ ~rival => \A k, l \in ActivePlatform : k = l
  /\ \A k \in ActivePlatform : tenant[key[k].tenant] = "platform"

\* The platform is never locked out: an active platform key is one whose secret
\* somebody was given, or its bootstrap is still running, or that bootstrap
\* threw between the key and the answer, which nothing short of the database
\* can mend.
PlatformKeyIsHeld ==
  \A k \in ActivePlatform \ held :
    \E c \in Call : call[c].op = "bootstrap" /\ call[c].target = k
                    /\ call[c].pc \in {"answer", "threw"}

\* Whatever is revoked, minted and issued meanwhile, a call that goes on was
\* admitted by a key that was active then, a token's included; it has no scope
\* its key had not; and it acts in the tenant of its key unless the platform
\* scope came with it.  No key but a platform one reaches into another tenant.
CredentialsBind ==
  \A c \in Call : call[c].key # NoKey =>
    /\ call[c].active
    /\ call[c].scopes \subseteq key[call[c].key].scopes
    /\ call[c].op \in {"use", "issue", "revoke"} /\ "platform" \notin key[call[c].key].scopes =>
         call[c].header = key[call[c].key].tenant

KeysInv == KeyTypes /\ PlatformKeyIsOne /\ PlatformKeyIsHeld /\ CredentialsBind

=============================================================================
