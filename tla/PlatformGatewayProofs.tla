------------------------ MODULE PlatformGatewayProofs ------------------------
(***************************************************************************)
(* What the gateway promises of credentials holds for any number of calls, *)
(* keys, tenants, errors and tokens, and what its signer and token bucket  *)
(* promise for any number of isolates and requests, any burst and any rate *)
(* of refilling.                                                           *)
(*                                                                         *)
(* KeysInv is not inductive: that a bootstrap finds no rival needs what    *)
(* its check saw, that a key's tenant stays what it is needs that tenants  *)
(* and keys about to be created are nobody else's, and that a credential   *)
(* keeps its rights needs that rows once written keep their scopes.        *)
(*                                                                         *)
(* EdgeInv is not inductive: what was admitted is bounded through the      *)
(* bucket's row, which accounts for it up to its own time stamp, and       *)
(* through what each request computed from the row before it writes it.    *)
(***************************************************************************)
EXTENDS PlatformKeys, PlatformEdge, TLAPS

(* Credentials (PlatformKeys).                                             *)

Op == {"none", "bootstrap", "signup"} \cup CallOp
Pc == {"idle", "check", "find tenant", "create tenant", "issue", "answer", "name tenant",
       "choose", "find key", "act", "revoke", "threw"}
KeyRow == [status : {"unused", "active", "revoked"}, tenant : Tenant \cup {NoTenant},
           scopes : SUBSET PlatformScope]
CallState == [op : Op, pc : Pc, key : ApiKey \cup {NoKey}, header : Tenant \cup {NoTenant},
              scopes : SUBSET PlatformScope, target : ApiKey \cup {NoKey},
              grant : SUBSET PlatformScope, active : BOOLEAN]
Shapes ==
  /\ key \in [ApiKey -> KeyRow]
  /\ tenant \in [Tenant -> {"absent", "plain", "platform"}]
  /\ held \subseteq ApiKey
  /\ token \subseteq [key : ApiKey, tenant : Tenant \cup {NoTenant}, scopes : SUBSET PlatformScope]
  /\ call \in [Call -> CallState]
  /\ rival \in BOOLEAN

Issued(k) == key[k].status # "unused"

\* A call has its place: what it is for, and what it needs there.
InPlace(r) ==
  /\ r.op \in {"bootstrap", "signup", "none"} => r.key = NoKey
  /\ r.pc \in {"check", "find tenant"} => r.op = "bootstrap"
  /\ r.pc = "name tenant" => r.op = "tenant"
  /\ r.pc = "choose" => r.op = "issue"
  /\ r.op # "bootstrap" => r.grant \subseteq Scope
  /\ r.pc \in {"choose", "issue", "create tenant", "name tenant"} => r.header \in Tenant
  /\ r.pc \in {"answer", "revoke"} => r.target \in ApiKey /\ Issued(r.target)
  /\ r.key # NoKey => r.key \in ApiKey /\ Issued(r.key)
CallsAreInPlace == \A c \in Call : InPlace(call[c])

\* A tenant about to be created is nobody else's; every other one named exists,
\* and a bootstrap that issues does so in a platform tenant.
Reserves(c, r) ==
  IF r.pc = "create tenant"
  THEN tenant[r.header] = "absent" /\ \A d \in Call \ {c} : call[d].header # r.header
  ELSE /\ r.header \in Tenant => tenant[r.header] # "absent"
       /\ r.op = "bootstrap" /\ r.pc = "issue" => tenant[r.header] = "platform"
TenantsAreNamed ==
  /\ \A c \in Call : Reserves(c, call[c])
  /\ \A k \in ApiKey : Issued(k) => key[k].tenant \in Tenant /\ tenant[key[k].tenant] # "absent"

\* What CredentialsBind says of one call.
Binds(r) ==
  r.key # NoKey =>
    /\ r.active
    /\ r.scopes \subseteq key[r.key].scopes
    /\ r.op \in {"use", "issue", "revoke"} /\ "platform" \notin key[r.key].scopes =>
         r.header = key[r.key].tenant

\* A secret is of a key that was issued, a token has rights of its key.
SecretsAreIssued ==
  /\ \A k \in held : Issued(k)
  /\ \A t \in token : Issued(t.key) /\ t.tenant = key[t.key].tenant /\ t.scopes \subseteq key[t.key].scopes

\* Without a rival, a bootstrap past its check is alone and no platform key is active.
BootstrapIsAlone ==
  ~rival => /\ \A c, d \in PastCheck : c = d
            /\ PastCheck # {} => ActivePlatform = {}

KeysInd == Shapes /\ CallsAreInPlace /\ TenantsAreNamed /\ SecretsAreIssued /\ BootstrapIsAlone
             /\ PlatformKeyIsOne /\ PlatformKeyIsHeld /\ CredentialsBind

-----------------------------------------------------------------------------
(* A call goes from one place to another; keys, tenants and secrets stay. *)

IsPastCheck(r) == r.op = "bootstrap" /\ r.pc \in {"find tenant", "create tenant", "issue"}
\* Who answers for a key whose secret nobody was given yet.
Answers(r) == r.op = "bootstrap" /\ r.pc \in {"answer", "threw"}

MayMove(c, r) ==
  /\ r \in CallState /\ InPlace(r) /\ Reserves(c, r) /\ Binds(r)
  /\ IsPastCheck(r) => IsPastCheck(call[c]) \/ ActivePlatform = {}
  /\ IsPastCheck(r) /\ ~IsPastCheck(call[c]) /\ PastCheck # {} => rival'
  /\ Answers(call[c]) => Answers(r) /\ r.target = call[c].target

\* A call that moves to a place it may be at, and nothing else does.
LEMMA CallMoves ==
  ASSUME KeysInd, NEW c \in Call, NEW r, MayMove(c, r),
         call' = [call EXCEPT ![c] = r], UNCHANGED <<key, tenant, held, token>>,
         rival' = rival \/ rival' = TRUE
  PROVE  KeysInd'
<1> USE DEF MayMove
<1>1. /\ \A d \in Call \ {c} : call'[d] = call[d]
      /\ call'[c] = r /\ call' \in [Call -> CallState]
      /\ \A d \in Call : call[d] \in CallState
  BY DEF KeysInd, Shapes
<1>2. Shapes'
  BY <1>1 DEF KeysInd, Shapes
<1>3. CallsAreInPlace'
  BY <1>1 DEF KeysInd, CallsAreInPlace, InPlace, Issued
<1>4. TenantsAreNamed'
  <2>1. ASSUME NEW d \in Call PROVE Reserves(d, call[d])'
    <3>1. CASE d = c
      BY <1>1, <3>1 DEF Reserves
    <3>2. CASE d # c
      <4>1. Reserves(d, call[d]) /\ InPlace(call[d])
        BY DEF KeysInd, TenantsAreNamed, CallsAreInPlace
      <4>2. r.header \in Tenant \cup {NoTenant}
        BY DEF CallState
      <4>3. call[d].pc = "create tenant" => r.header # call[d].header
        BY <4>1, <4>2, <3>2, KeyAssumption DEF Reserves, InPlace
      <4> QED
        BY <1>1, <3>2, <4>1, <4>3 DEF Reserves
    <3> QED
      BY <3>1, <3>2
  <2> QED
    BY <2>1 DEF KeysInd, TenantsAreNamed, Issued
<1>5. SecretsAreIssued'
  BY DEF KeysInd, SecretsAreIssued, Issued
<1>6. BootstrapIsAlone'
  <2>1. ActivePlatform' = ActivePlatform
    BY DEF ActivePlatform
  <2>2. PastCheck' \subseteq PastCheck \cup {c}
    BY <1>1 DEF PastCheck, Phase
  <2>3. c \in PastCheck' => IsPastCheck(r)
    BY <1>1 DEF PastCheck, Phase, IsPastCheck
  <2>4. c \in PastCheck <=> IsPastCheck(call[c])
    BY DEF PastCheck, Phase, IsPastCheck
  <2>5. ASSUME ~rival'
        PROVE  (\A d, e \in PastCheck' : d = e) /\ (PastCheck' # {} => ActivePlatform' = {})
    <3>1. ~rival
      BY <2>5, Zenon
    <3>2. (\A d, e \in PastCheck : d = e) /\ (PastCheck # {} => ActivePlatform = {})
      BY <3>1 DEF KeysInd, BootstrapIsAlone
    <3>3. CASE IsPastCheck(r) /\ ~IsPastCheck(call[c])
      <4>1. PastCheck = {} /\ ActivePlatform = {}
        BY <2>5, <3>3, Zenon
      <4> QED
        BY <2>1, <2>2, <4>1
    <3>4. CASE ~(IsPastCheck(r) /\ ~IsPastCheck(call[c]))
      BY <2>1, <2>2, <2>3, <2>4, <3>2, <3>4
    <3> QED
      BY <3>3, <3>4
  <2> QED
    BY <2>5 DEF BootstrapIsAlone
<1>7. PlatformKeyIsOne'
  BY DEF KeysInd, Shapes, PlatformKeyIsOne, ActivePlatform
<1>8. PlatformKeyIsHeld'
  <2>1. ASSUME NEW k \in ActivePlatform \ held
        PROVE  \E d \in Call : Answers(call'[d]) /\ call'[d].target = k
    <3>1. PICK d \in Call : Answers(call[d]) /\ call[d].target = k
      BY DEF KeysInd, PlatformKeyIsHeld, Answers
    <3> QED
      BY <1>1, <3>1
  <2> QED
    BY <2>1 DEF ActivePlatform, PlatformKeyIsHeld, Answers
<1>9. CredentialsBind'
  BY <1>1 DEF KeysInd, CredentialsBind, Binds
<1> QED
  BY <1>2, <1>3, <1>4, <1>5, <1>6, <1>7, <1>8, <1>9 DEF KeysInd

\* A call that is over holds nothing and binds nothing.
LEMMA NoCallIsFree ==
  /\ NoCall \in CallState /\ InPlace(NoCall) /\ Binds(NoCall) /\ ~IsPastCheck(NoCall)
  /\ \A c : Reserves(c, NoCall)
BY KeyAssumption DEF NoCall, CallState, Op, Pc, InPlace, Reserves, Binds, IsPastCheck

\* What the invariant says of one call.
LEMMA CallsAreTyped ==
  ASSUME KeysInd, NEW c \in Call
  PROVE  call[c] \in CallState /\ InPlace(call[c]) /\ Reserves(c, call[c]) /\ Binds(call[c])
BY DEF KeysInd, Shapes, CallsAreInPlace, TenantsAreNamed, CredentialsBind, Binds

-----------------------------------------------------------------------------
(* The actions that only move a call. *)

\* A call that ends in an answer without a credential.
LEMMA Answer ==
  ASSUME KeysInd, NEW c \in Call, ~Answers(call[c]), Answered(c),
         UNCHANGED <<key, tenant, held, token, rival>>
  PROVE  KeysInd'
BY NoCallIsFree, CallMoves DEF MayMove, Answered

\* A bootstrap up to its key: token, check, tenant of the platform.
LEMMA BootstrapKeepsInd ==
  ASSUME KeysInd, NEW c \in Call, Bootstrap(c) \/ CheckBootstrapped(c) \/ FindPlatformTenant(c)
  PROVE  KeysInd'
<1> USE CallsAreTyped, KeyAssumption DEF Phase, InPlace, Reserves, Binds, IsPastCheck, Answers
<1>1. CASE Bootstrap(c)
  <2> DEFINE r == [NoCall EXCEPT !.op = "bootstrap", !.pc = "check"]
  <2>1. MayMove(c, r)
    BY <1>1 DEF MayMove, Bootstrap, NoCall, CallState, Op, Pc
  <2> QED
    BY <1>1, <2>1, CallMoves DEF Bootstrap
<1>2. CASE CheckBootstrapped(c) /\ ActivePlatform # {}
  BY <1>2, Answer DEF CheckBootstrapped
<1>3. CASE CheckBootstrapped(c) /\ ActivePlatform = {}
  <2> DEFINE r == [call[c] EXCEPT !.pc = "find tenant"]
  <2>1. call' = [call EXCEPT ![c] = r] /\ rival' = (rival \/ PastCheck # {})
    BY <1>3 DEF CheckBootstrapped, To
  <2>2. CASE PastCheck = {}
    <3>1. rival' = rival
      BY <2>1, <2>2 DEF KeysInd, Shapes
    <3>2. MayMove(c, r)
      BY <1>3, <2>2 DEF MayMove, CheckBootstrapped, CallState, Op, Pc
    <3> QED
      BY <1>3, <2>1, <3>1, <3>2, CallMoves DEF CheckBootstrapped
  <2>3. CASE PastCheck # {}
    <3>1. rival' = TRUE
      BY <2>1, <2>3 DEF KeysInd, Shapes
    <3>2. MayMove(c, r)
      BY <1>3, <3>1 DEF MayMove, CheckBootstrapped, CallState, Op, Pc
    <3> QED
      BY <1>3, <2>1, <3>1, <3>2, CallMoves DEF CheckBootstrapped
  <2> QED
    BY <2>2, <2>3
<1>4. CASE FindPlatformTenant(c)
  <2>1. PICK t \in Tenant, pc \in {"issue", "create tenant"} :
          /\ call' = [call EXCEPT ![c].header = t, ![c].pc = pc]
          /\ pc = "issue" => tenant[t] = "platform"
          /\ pc = "create tenant" => FreshTenant(t)
    BY <1>4 DEF FindPlatformTenant
  <2> DEFINE r == [call[c] EXCEPT !.header = t, !.pc = pc]
  <2>2. MayMove(c, r)
    BY <1>4, <2>1 DEF MayMove, FindPlatformTenant, FreshTenant, CallState, Op, Pc
  <2>3. call' = [call EXCEPT ![c] = r]
    BY <2>1 DEF KeysInd, Shapes
  <2> QED
    BY <1>4, <2>2, <2>3, CallMoves DEF FindPlatformTenant
<1> QED
  BY <1>1, <1>2, <1>3, <1>4

\* A credential that was found lets its call in, for the tenant and scopes it has.
LEMMA AdmitKeepsInd ==
  ASSUME KeysInd, NEW c \in Call, NEW op \in CallOp, NEW k \in ApiKey, NEW own, NEW header \in Tenant,
         NEW scopes, Issued(k), own = key[k].tenant, scopes \subseteq key[k].scopes,
         NEW known, known => key[k].status = "active", Admit(c, op, k, scopes, own, header, known)
  PROVE  KeysInd'
<1> USE CallsAreTyped, KeyAssumption DEF Phase, InPlace, Reserves, Binds, IsPastCheck, Answers
<1> DEFINE r == [NoCall EXCEPT !.op = op, !.key = k, !.header = header, !.scopes = scopes,
                   !.active = (key[k].status = "active"),
                   !.pc = CASE op = "tenant" -> "name tenant" [] op = "issue" -> "choose"
                            [] op = "revoke" -> "find key" [] OTHER -> "act"]
<1>1. r \in CallState
  BY ZenonT(40) DEF CallState, Op, CallOp, Pc, NoCall, KeysInd, Shapes, KeyRow
<1>2. tenant[header] # "absent"
  BY DEF Admit, Permitted, KeysInd, TenantsAreNamed
<1>3. Binds(r)
  BY DEF NoCall, Admit, Permitted, CallOp
<1>4. InPlace(r) /\ Reserves(c, r) /\ ~IsPastCheck(r)
  BY <1>2 DEF NoCall, CallOp
<1>5. MayMove(c, r)
  BY <1>1, <1>3, <1>4 DEF MayMove, Admit
<1> QED
  BY <1>5, CallMoves DEF Admit

\* A call is authenticated by a key or by a token.
LEMMA AuthenticateKeepsInd ==
  ASSUME KeysInd, NEW c \in Call, NEW op \in CallOp,
         AuthenticateKey(c, op) \/ AuthenticateToken(c, op)
  PROVE  KeysInd'
<1>1. CASE AuthenticateKey(c, op)
  BY <1>1, AdmitKeepsInd DEF AuthenticateKey, KeyAdmitted, KeysInd, Shapes, SecretsAreIssued
<1>2. CASE AuthenticateToken(c, op)
  <2>1. PICK t \in token, header \in Tenant :
          Admit(c, op, t.key, t.scopes, t.tenant, header, ClientAdmitted(t.key))
    BY <1>2 DEF AuthenticateToken
  <2>2. t.key \in ApiKey /\ Issued(t.key) /\ t.tenant = key[t.key].tenant /\ t.scopes \subseteq key[t.key].scopes
    BY DEF KeysInd, Shapes, SecretsAreIssued
  <2> QED
    BY <2>1, <2>2, AdmitKeepsInd DEF ClientAdmitted
<1> QED
  BY <1>1, <1>2

\* The steps of a call that change no row.
LEMMA CallKeepsInd ==
  ASSUME KeysInd, NEW c \in Call,
         Signup(c) \/ Act(c) \/ NameTenant(c) \/ ChooseScopes(c) \/ FindKey(c) \/ FailCall(c)
  PROVE  KeysInd'
<1> USE CallsAreTyped, KeyAssumption DEF Phase, InPlace, Reserves, Binds, IsPastCheck, Answers
<1>1. CASE Signup(c)
  <2>1. PICK t \in Tenant : FreshTenant(t) /\ call' = [call EXCEPT ![c] =
          [NoCall EXCEPT !.op = "signup", !.pc = "create tenant", !.header = t, !.grant = Scope]]
    BY <1>1 DEF Signup
  <2> DEFINE r == [NoCall EXCEPT !.op = "signup", !.pc = "create tenant", !.header = t, !.grant = Scope]
  <2>2. MayMove(c, r)
    BY <1>1, <2>1 DEF MayMove, Signup, FreshTenant, NoCall, CallState, Op, Pc, PlatformScope
  <2> QED
    BY <1>1, <2>1, <2>2, CallMoves DEF Signup
<1>2. CASE Act(c)
  BY <1>2, Answer DEF Act
<1>3. CASE NameTenant(c)
  <2>1. PICK t \in Tenant : FreshTenant(t)
          /\ call' = [call EXCEPT ![c].header = t, ![c].grant = Scope, ![c].pc = "create tenant"]
    BY <1>3 DEF NameTenant
  <2> DEFINE r == [call[c] EXCEPT !.header = t, !.grant = Scope, !.pc = "create tenant"]
  <2>2. MayMove(c, r)
    BY <1>3, <2>1, ZenonT(40) DEF MayMove, NameTenant, FreshTenant, CallState, Op, Pc, PlatformScope
  <2>3. call' = [call EXCEPT ![c] = r]
    BY <2>1 DEF KeysInd, Shapes
  <2> QED
    BY <1>3, <2>2, <2>3, CallMoves DEF NameTenant
<1>4. CASE ChooseScopes(c)
  <2>1. CASE Answered(c)
    BY <1>4, <2>1, Answer DEF ChooseScopes
  <2>2. ASSUME NEW asked \in SUBSET PlatformScope,
               call' = [call EXCEPT ![c].grant = asked \cap Scope, ![c].pc = "issue"]
        PROVE  KeysInd'
    <3> DEFINE r == [call[c] EXCEPT !.grant = asked \cap Scope, !.pc = "issue"]
    <3>1. call[c].op # "bootstrap"
      BY <1>4 DEF ChooseScopes
    <3>2. MayMove(c, r)
      BY <1>4, <2>2, <3>1 DEF MayMove, ChooseScopes, CallState, Op, Pc, PlatformScope
    <3>3. call' = [call EXCEPT ![c] = r]
      BY <2>2 DEF KeysInd, Shapes
    <3> QED
      BY <1>4, <3>2, <3>3, CallMoves DEF ChooseScopes
  <2> QED
    BY <1>4, <2>1, <2>2 DEF ChooseScopes
<1>5. CASE FindKey(c)
  <2>1. CASE Answered(c)
    BY <1>5, <2>1, Answer DEF FindKey
  <2>2. ASSUME NEW k \in ApiKey, Issued(k), call' = [call EXCEPT ![c].target = k, ![c].pc = "revoke"]
        PROVE  KeysInd'
    <3> DEFINE r == [call[c] EXCEPT !.target = k, !.pc = "revoke"]
    <3>1. MayMove(c, r)
      BY <1>5, <2>2 DEF MayMove, FindKey, CallState, Op, Pc
    <3>2. call' = [call EXCEPT ![c] = r]
      BY <2>2 DEF KeysInd, Shapes
    <3> QED
      BY <1>5, <3>1, <3>2, CallMoves DEF FindKey
  <2> QED
    BY <1>5, <2>1, <2>2 DEF FindKey, Issued
<1>6. CASE FailCall(c)
  <2> DEFINE r == [NoCall EXCEPT !.op = call[c].op,
                     !.target = IF call[c].op = "revoke" THEN NoKey ELSE call[c].target, !.pc = "threw"]
  <2>1. MayMove(c, r)
    BY <1>6 DEF MayMove, FailCall, NoCall, CallState, Op, Pc
  <2> QED
    BY <1>6, <2>1, CallMoves DEF FailCall
<1> QED
  BY <1>1, <1>2, <1>3, <1>4, <1>5, <1>6
-----------------------------------------------------------------------------
(* The actions that change keys, tenants, secrets or tokens. *)

\* One call goes to r, the others stay where they are.
LEMMA OneCall ==
  ASSUME KeysInd, NEW c \in Call, NEW r \in CallState, call' = [call EXCEPT ![c] = r]
  PROVE  /\ call' \in [Call -> CallState] /\ call'[c] = r
         /\ \A d \in Call \ {c} : call'[d] = call[d]
         /\ PastCheck' = IF IsPastCheck(r) THEN PastCheck \cup {c} ELSE PastCheck \ {c}
         /\ c \in PastCheck <=> IsPastCheck(call[c])
<1>1. call' \in [Call -> CallState] /\ call'[c] = r /\ \A d \in Call \ {c} : call'[d] = call[d]
  BY DEF KeysInd, Shapes
<1>2. /\ \A d \in Call : d \in PastCheck <=> IsPastCheck(call[d])
      /\ \A d \in Call : d \in PastCheck' <=> IsPastCheck(call'[d])
      /\ PastCheck \subseteq Call /\ PastCheck' \subseteq Call
  BY DEF PastCheck, Phase, IsPastCheck
<1> QED
  BY <1>1, <1>2

\* A tenant is created under the name the call has chosen.
LEMMA CreateTenantKeepsInd ==
  ASSUME KeysInd, NEW c \in Call, CreateTenant(c)
  PROVE  KeysInd'
<1> USE KeyAssumption DEF Phase
<1>1. /\ call[c].pc = "create tenant" /\ call[c].header \in Tenant
      /\ tenant[call[c].header] = "absent" /\ \A d \in Call \ {c} : call[d].header # call[c].header
  BY CallsAreTyped DEF CreateTenant, InPlace, Reserves
<1> DEFINE t == call[c].header
<1>2. /\ tenant' \in [Tenant -> {"absent", "plain", "platform"}]
      /\ tenant'[t] \in {"plain", "platform"}
      /\ call[c].op = "bootstrap" => tenant'[t] = "platform"
      /\ \A u \in Tenant \ {t} : tenant'[u] = tenant[u]
  BY <1>1 DEF CreateTenant, KeysInd, Shapes
<1> DEFINE r == [call[c] EXCEPT !.pc = "issue"]
<1>moved. r \in CallState /\ call' = [call EXCEPT ![c] = r]
  BY CallsAreTyped DEF CreateTenant, To, CallState, Pc
<1>3. /\ \A d \in Call \ {c} : call'[d] = call[d]
      /\ call'[c] = r /\ call' \in [Call -> CallState]
      /\ PastCheck' = IF IsPastCheck(r) THEN PastCheck \cup {c} ELSE PastCheck \ {c}
      /\ c \in PastCheck <=> IsPastCheck(call[c])
  BY <1>moved, OneCall
<1>fields. r.op = call[c].op /\ r.header = t /\ r.pc = "issue" /\ r.target = call[c].target
      /\ r.key = call[c].key /\ r.grant = call[c].grant /\ r.scopes = call[c].scopes /\ r.active = call[c].active
  BY CallsAreTyped DEF CallState
<1> HIDE DEF r
<1>4. UNCHANGED <<key, held, token, rival>>
  BY DEF CreateTenant
<1>5. Shapes'
  BY <1>2, <1>3, <1>4 DEF KeysInd, Shapes
<1>6. CallsAreInPlace'
  <2>1. ASSUME NEW d \in Call PROVE InPlace(call[d])'
    <3>1. InPlace(call[d])
      BY CallsAreTyped
    <3>2. CASE d = c
      BY <1>1, <1>3, <1>fields, <1>4, <3>1, <3>2 DEF InPlace, Issued
    <3>3. CASE d # c
      BY <1>3, <1>4, <3>1, <3>3 DEF InPlace, Issued
    <3> QED
      BY <3>2, <3>3
  <2> QED
    BY <2>1 DEF CallsAreInPlace
<1>7. TenantsAreNamed'
  <2>1. ASSUME NEW d \in Call PROVE Reserves(d, call[d])'
    <3>1. CASE d = c
      BY <1>1, <1>2, <1>3, <1>fields, <3>1 DEF Reserves
    <3>2. CASE d # c
      <4>1. Reserves(d, call[d]) /\ call[d].header # t
        BY <1>1, <3>2, CallsAreTyped
      <4>2. call[d].pc \in {"create tenant", "issue"} => call[d].header \in Tenant
        BY CallsAreTyped DEF InPlace
      <4>3. call'[d] = call[d]
        BY <1>3, <3>2
      <4>4. \A e \in Call \ {d} : call'[e].header = call[e].header
        BY <1>3, <1>fields
      <4>5. call[d].header \in Tenant => tenant'[call[d].header] = tenant[call[d].header]
        BY <1>2, <4>1
      <4>6. CASE call[d].pc = "create tenant"
        BY <4>1, <4>2, <4>3, <4>4, <4>5, <4>6 DEF Reserves
      <4>7. CASE call[d].pc # "create tenant"
        BY <4>1, <4>2, <4>3, <4>5, <4>7 DEF Reserves
      <4> QED
        BY <4>6, <4>7
    <3> QED
      BY <3>1, <3>2
  <2>2. \A k \in ApiKey : Issued(k)' => key'[k].tenant \in Tenant /\ tenant'[key'[k].tenant] # "absent"
    BY <1>2, <1>4 DEF KeysInd, TenantsAreNamed, Issued
  <2> QED
    BY <2>1, <2>2 DEF TenantsAreNamed
<1>8. SecretsAreIssued'
  BY <1>4 DEF KeysInd, SecretsAreIssued, Issued
<1>9. PastCheck' = PastCheck /\ ActivePlatform' = ActivePlatform
  BY <1>1, <1>3, <1>fields, <1>4 DEF ActivePlatform, IsPastCheck
<1>10. BootstrapIsAlone'
  BY <1>4, <1>9, Zenon DEF KeysInd, BootstrapIsAlone
<1>11. PlatformKeyIsOne'
  BY <1>1, <1>2, <1>4 DEF KeysInd, PlatformKeyIsOne, ActivePlatform, TenantsAreNamed, Issued
<1>12. PlatformKeyIsHeld'
  <2>1. ASSUME NEW k \in ActivePlatform \ held
        PROVE  \E d \in Call : Answers(call'[d]) /\ call'[d].target = k
    <3>1. PICK d \in Call : Answers(call[d]) /\ call[d].target = k
      BY DEF KeysInd, PlatformKeyIsHeld, Answers
    <3> QED
      BY <1>1, <1>3, <3>1 DEF Answers
  <2> QED
    BY <1>4, <1>9, <2>1 DEF PlatformKeyIsHeld, Answers
<1>13. CredentialsBind'
  <2>1. ASSUME NEW d \in Call PROVE Binds(call[d])'
    BY <1>3, <1>fields, <1>4, CallsAreTyped DEF Binds
  <2> QED
    BY <2>1 DEF CredentialsBind, Binds
<1> QED
  BY <1>5, <1>6, <1>7, <1>8, <1>10, <1>11, <1>12, <1>13 DEF KeysInd

\* A key is issued for the tenant and with the scopes of its call.
LEMMA IssueKeyKeepsInd ==
  ASSUME KeysInd, NEW c \in Call, IssueKey(c)
  PROVE  KeysInd'
<1> USE KeyAssumption DEF Phase
<1>1. PICK k \in ApiKey :
        /\ FreshKey(k)
        /\ key' = [key EXCEPT ![k] = [status |-> "active", tenant |-> call[c].header,
                                      scopes |-> GrantedScopes(c)]]
        /\ call' = [call EXCEPT ![c].target = k, ![c].pc = "answer"]
  BY DEF IssueKey
<1>2. /\ call[c].pc = "issue" /\ ~Issued(k) /\ call[c].header \in Tenant
      /\ tenant[call[c].header] # "absent"
      /\ call[c].op = "bootstrap" => tenant[call[c].header] = "platform"
      /\ GrantedScopes(c) \in SUBSET PlatformScope
      /\ call[c].op # "bootstrap" => GrantedScopes(c) \subseteq Scope
  BY <1>1, CallsAreTyped
     DEF IssueKey, FreshKey, Issued, InPlace, Reserves, GrantedScopes, CallState, PlatformScope
<1>3. /\ key' \in [ApiKey -> KeyRow]
      /\ key'[k] = [status |-> "active", tenant |-> call[c].header, scopes |-> GrantedScopes(c)]
      /\ \A l \in ApiKey \ {k} : key'[l] = key[l]
      /\ \A l \in ApiKey : Issued(l) => l # k
  BY <1>1, <1>2 DEF KeysInd, Shapes, KeyRow
<1> DEFINE r == [call[c] EXCEPT !.target = k, !.pc = "answer"]
<1>moved. call' = [call EXCEPT ![c] = r]
  BY <1>1 DEF KeysInd, Shapes
<1>typed. r \in CallState
  BY CallsAreTyped DEF CallState, Pc
<1>fields. r.op = call[c].op /\ r.header = call[c].header /\ r.pc = "answer" /\ r.target = k
      /\ r.key = call[c].key /\ r.grant = call[c].grant /\ r.scopes = call[c].scopes /\ r.active = call[c].active
  BY CallsAreTyped DEF CallState
<1>4. /\ \A d \in Call \ {c} : call'[d] = call[d]
      /\ call'[c] = r /\ call' \in [Call -> CallState]
      /\ PastCheck' = IF IsPastCheck(r) THEN PastCheck \cup {c} ELSE PastCheck \ {c}
      /\ c \in PastCheck <=> IsPastCheck(call[c])
  BY <1>moved, <1>typed, OneCall
<1> HIDE DEF r
<1>5. UNCHANGED <<tenant, held, token, rival>>
  BY DEF IssueKey
<1>6. Shapes'
  BY <1>3, <1>4, <1>5 DEF KeysInd, Shapes
<1>7. CallsAreInPlace'
  <2>1. ASSUME NEW d \in Call PROVE InPlace(call[d])'
    <3>1. InPlace(call[d]) /\ \A l \in ApiKey : Issued(l) => Issued(l)'
      BY <1>3, CallsAreTyped DEF Issued
    <3>2. CASE d = c
      <4>1. Issued(k)'
        BY <1>3 DEF Issued
      <4> QED
        BY <1>2, <1>4, <1>fields, <3>1, <3>2, <4>1 DEF InPlace, Issued
    <3>3. CASE d # c
      BY <1>4, <3>1, <3>3 DEF InPlace
    <3> QED
      BY <3>2, <3>3
  <2> QED
    BY <2>1 DEF CallsAreInPlace
<1>8. TenantsAreNamed'
  <2>1. ASSUME NEW d \in Call PROVE Reserves(d, call[d])'
    <3>1. CASE d = c
      BY <1>2, <1>4, <1>fields, <1>5, <3>1 DEF Reserves
    <3>2. CASE d # c
      <4>1. Reserves(d, call[d])
        BY CallsAreTyped
      <4> QED
        BY <1>4, <1>fields, <1>5, <3>2, <4>1 DEF Reserves
    <3> QED
      BY <3>1, <3>2
  <2>2. \A l \in ApiKey : Issued(l)' => key'[l].tenant \in Tenant /\ tenant'[key'[l].tenant] # "absent"
    BY <1>2, <1>3, <1>5 DEF KeysInd, TenantsAreNamed, Issued
  <2> QED
    BY <2>1, <2>2 DEF TenantsAreNamed
<1>9. SecretsAreIssued'
  BY <1>3, <1>5 DEF KeysInd, Shapes, SecretsAreIssued, Issued
<1>10. /\ ActivePlatform' \subseteq ActivePlatform \cup {k}
       /\ k \in ActivePlatform' => call[c].op = "bootstrap"
  BY <1>2, <1>3 DEF ActivePlatform, Scope
<1>11. PastCheck' = PastCheck \ {c} /\ (call[c].op = "bootstrap" => c \in PastCheck)
  BY <1>2, <1>4, <1>fields DEF IsPastCheck
<1>12. BootstrapIsAlone'
  <2>1. ASSUME ~rival'
        PROVE  (\A d, e \in PastCheck' : d = e) /\ (PastCheck' # {} => ActivePlatform' = {})
    <3>1. (\A d, e \in PastCheck : d = e) /\ (PastCheck # {} => ActivePlatform = {})
      BY <1>5, <2>1, Zenon DEF KeysInd, BootstrapIsAlone
    <3> QED
      BY <1>10, <1>11, <3>1
  <2> QED
    BY <2>1 DEF BootstrapIsAlone
<1>13. PlatformKeyIsOne'
  <2>1. ASSUME ~rival' PROVE \A l, m \in ActivePlatform' : l = m
    <3>1. \A l, m \in ActivePlatform : l = m
      BY <1>5, <2>1, Zenon DEF KeysInd, PlatformKeyIsOne
    <3>2. PastCheck # {} => ActivePlatform = {}
      BY <1>5, <2>1, Zenon DEF KeysInd, BootstrapIsAlone
    <3> QED
      BY <1>10, <1>11, <3>1, <3>2
  <2>2. ASSUME NEW l \in ActivePlatform' PROVE tenant'[key'[l].tenant] = "platform"
    <3>1. CASE l = k
      BY <1>2, <1>3, <1>5, <1>10, <3>1
    <3>2. CASE l # k
      BY <1>3, <1>5, <1>10, <3>2 DEF KeysInd, PlatformKeyIsOne, ActivePlatform
    <3> QED
      BY <3>1, <3>2
  <2> QED
    BY <2>1, <2>2 DEF PlatformKeyIsOne
<1>14. PlatformKeyIsHeld'
  <2>1. ASSUME NEW l \in ActivePlatform' \ held'
        PROVE  \E d \in Call : Answers(call'[d]) /\ call'[d].target = l
    <3>1. CASE l = k
      BY <1>4, <1>fields, <1>10, <3>1 DEF Answers
    <3>2. CASE l # k
      <4>1. PICK d \in Call : Answers(call[d]) /\ call[d].target = l
        BY <1>5, <1>10, <3>2 DEF KeysInd, PlatformKeyIsHeld, Answers
      <4> QED
        BY <1>2, <1>4, <4>1 DEF Answers
    <3> QED
      BY <3>1, <3>2
  <2> QED
    BY <2>1 DEF PlatformKeyIsHeld, Answers
<1>15. CredentialsBind'
  <2>1. ASSUME NEW d \in Call PROVE Binds(call[d])'
    <3>1. Binds(call[d]) /\ (call[d].key # NoKey => call[d].key \in ApiKey /\ Issued(call[d].key))
      BY CallsAreTyped DEF InPlace
    <3> QED
      BY <1>3, <1>4, <1>fields, <3>1 DEF Binds
  <2> QED
    BY <2>1 DEF CredentialsBind, Binds
<1> QED
  BY <1>6, <1>7, <1>8, <1>9, <1>12, <1>13, <1>14, <1>15 DEF KeysInd

\* A key is revoked and opens nothing any more.
LEMMA RevokeKeyKeepsInd ==
  ASSUME KeysInd, NEW c \in Call, RevokeKey(c)
  PROVE  KeysInd'
<1> USE KeyAssumption DEF Phase
<1> DEFINE k == call[c].target
<1>1. call[c].pc = "revoke" /\ k \in ApiKey /\ Issued(k)
  BY CallsAreTyped DEF RevokeKey, InPlace
<1> DEFINE dead == [key EXCEPT ![k].status = "revoked"]
<1>2. key' = dead /\ call' = [call EXCEPT ![c] = NoCall] /\ UNCHANGED <<tenant, held, token, rival>>
  BY DEF RevokeKey, Answered
<1>3. /\ key' \in [ApiKey -> KeyRow]
      /\ \A l \in ApiKey : /\ key'[l].tenant = key[l].tenant /\ key'[l].scopes = key[l].scopes
                           /\ Issued(l)' <=> Issued(l)
                           /\ key'[l].status = "active" => key[l].status = "active"
  BY <1>1, <1>2 DEF KeysInd, Shapes, KeyRow, Issued
<1>4. /\ \A d \in Call \ {c} : call'[d] = call[d]
      /\ call'[c] = NoCall /\ call' \in [Call -> CallState] /\ PastCheck' = PastCheck \ {c}
  BY <1>2, NoCallIsFree, OneCall
<1>5. Shapes'
  BY <1>2, <1>3, <1>4 DEF KeysInd, Shapes
<1>6. CallsAreInPlace'
  <2>1. ASSUME NEW d \in Call PROVE InPlace(call[d])'
    BY <1>3, <1>4, CallsAreTyped, NoCallIsFree, ZenonT(40) DEF InPlace, CallState
  <2> QED
    BY <2>1 DEF CallsAreInPlace
<1>7. TenantsAreNamed'
  <2>1. ASSUME NEW d \in Call PROVE Reserves(d, call[d])'
    <3>1. call'[c].header \notin Tenant /\ call'[c].pc = "idle"
      BY <1>4 DEF NoCall
    <3>2. CASE d = c
      BY <3>1, <3>2 DEF Reserves
    <3>3. CASE d # c
      BY <1>2, <1>4, <3>1, <3>3, CallsAreTyped DEF Reserves, InPlace
    <3> QED
      BY <3>2, <3>3
  <2>2. \A l \in ApiKey : Issued(l)' => key'[l].tenant \in Tenant /\ tenant'[key'[l].tenant] # "absent"
    BY <1>2, <1>3 DEF KeysInd, TenantsAreNamed
  <2> QED
    BY <2>1, <2>2 DEF TenantsAreNamed
<1>8. SecretsAreIssued'
  BY <1>2, <1>3 DEF KeysInd, Shapes, SecretsAreIssued
<1>9. ActivePlatform' \subseteq ActivePlatform
  BY <1>3 DEF ActivePlatform
<1>10. PastCheck' \subseteq PastCheck
  BY <1>4
<1>11. BootstrapIsAlone'
  BY <1>2, <1>9, <1>10, Zenon DEF KeysInd, BootstrapIsAlone
<1>12. PlatformKeyIsOne'
  <2>1. ASSUME ~rival' PROVE \A l, m \in ActivePlatform' : l = m
    BY <1>2, <1>9, <2>1, Zenon DEF KeysInd, PlatformKeyIsOne
  <2>2. \A l \in ActivePlatform' : tenant'[key'[l].tenant] = "platform"
    BY <1>2, <1>3, <1>9 DEF KeysInd, PlatformKeyIsOne, ActivePlatform
  <2> QED
    BY <2>1, <2>2 DEF PlatformKeyIsOne
<1>13. PlatformKeyIsHeld'
  BY <1>1, <1>2, <1>4, <1>9 DEF KeysInd, PlatformKeyIsHeld
<1>14. CredentialsBind'
  <2>1. ASSUME NEW d \in Call PROVE Binds(call[d])'
    <3>1. Binds(call[d]) /\ (call[d].key # NoKey => call[d].key \in ApiKey)
      BY CallsAreTyped DEF InPlace
    <3> QED
      BY <1>3, <1>4, <3>1, NoCallIsFree DEF Binds, NoCall
  <2> QED
    BY <2>1 DEF CredentialsBind, Binds
<1> QED
  BY <1>5, <1>6, <1>7, <1>8, <1>11, <1>12, <1>13, <1>14 DEF KeysInd

\* An answer, and the tokens: what is held grows by keys that were issued.
LEMMA AnswerKeyKeepsInd ==
  ASSUME KeysInd, NEW c \in Call, AnswerKey(c)
  PROVE  KeysInd'
<1> USE KeyAssumption DEF Phase
<1>1. /\ call[c].pc = "answer" /\ call[c].target \in ApiKey /\ Issued(call[c].target)
      /\ held' = held \cup {call[c].target} /\ call' = [call EXCEPT ![c] = NoCall]
      /\ UNCHANGED <<key, tenant, token, rival>>
  BY CallsAreTyped DEF AnswerKey, Answered, InPlace
<1>2. /\ \A d \in Call \ {c} : call'[d] = call[d]
      /\ call'[c] = NoCall /\ call' \in [Call -> CallState] /\ PastCheck' = PastCheck \ {c}
  BY <1>1, NoCallIsFree, OneCall
<1>3. Shapes'
  BY <1>1, <1>2 DEF KeysInd, Shapes
<1>4. CallsAreInPlace'
  BY <1>1, <1>2, NoCallIsFree DEF KeysInd, CallsAreInPlace, InPlace, Issued
<1>5. TenantsAreNamed'
  <2>1. call'[c].header \notin Tenant /\ call'[c].pc = "idle"
    BY <1>2 DEF NoCall
  <2>2. ASSUME NEW d \in Call PROVE Reserves(d, call[d])'
    BY <1>1, <1>2, <2>1, CallsAreTyped DEF Reserves, InPlace
  <2> QED
    BY <1>1, <2>2 DEF KeysInd, TenantsAreNamed, Issued
<1>6. SecretsAreIssued'
  BY <1>1 DEF KeysInd, SecretsAreIssued, Issued
<1>7. ActivePlatform' = ActivePlatform
  BY <1>1 DEF ActivePlatform
<1>8. PastCheck' \subseteq PastCheck
  BY <1>2
<1>9. BootstrapIsAlone'
  BY <1>1, <1>7, <1>8, Zenon DEF KeysInd, BootstrapIsAlone
<1>10. PlatformKeyIsOne'
  BY <1>1, <1>7 DEF KeysInd, PlatformKeyIsOne
<1>11. PlatformKeyIsHeld'
  BY <1>1, <1>2, <1>7 DEF KeysInd, PlatformKeyIsHeld
<1>12. CredentialsBind'
  BY <1>1, <1>2, NoCallIsFree DEF KeysInd, CredentialsBind, Binds
<1> QED
  BY <1>3, <1>4, <1>5, <1>6, <1>9, <1>10, <1>11, <1>12 DEF KeysInd

\* A token is minted from a key, or expires.
LEMMA TokensKeepInd ==
  ASSUME KeysInd, ExpireToken \/ \E c \in Call : MintToken(c)
  PROVE  KeysInd'
<1>1. UNCHANGED <<key, tenant, held, call, rival>>
  BY DEF ExpireToken, MintToken
<1>2. \A t \in token' : t \in token \/ \E k \in held, granted \in SUBSET PlatformScope :
        /\ granted \subseteq key[k].scopes
        /\ t = [key |-> k, tenant |-> key[k].tenant, scopes |-> granted]
  BY DEF ExpireToken, MintToken, KeysInd, Shapes, KeyRow
<1>3. Shapes'
  BY <1>1, <1>2 DEF KeysInd, Shapes, KeyRow
<1>4. SecretsAreIssued'
  BY <1>1, <1>2 DEF KeysInd, SecretsAreIssued, Issued
<1>5. CallsAreInPlace' /\ TenantsAreNamed'
  BY <1>1 DEF KeysInd, CallsAreInPlace, InPlace, Issued, TenantsAreNamed, Reserves
<1>7. BootstrapIsAlone'
  BY <1>1, Zenon DEF KeysInd, BootstrapIsAlone, PastCheck, Phase, ActivePlatform
<1>6. PlatformKeyIsOne' /\ PlatformKeyIsHeld' /\ CredentialsBind'
  BY <1>1 DEF KeysInd, PlatformKeyIsOne, PlatformKeyIsHeld, CredentialsBind, ActivePlatform
<1> QED
  BY <1>3, <1>4, <1>5, <1>6, <1>7 DEF KeysInd

-----------------------------------------------------------------------------
\* There is no key and no tenant at first.
LEMMA KeyInitInd == KeyInit => KeysInd
<1> SUFFICES ASSUME KeyInit PROVE KeysInd
  OBVIOUS
<1>1. ActivePlatform = {} /\ PastCheck = {}
  BY DEF KeyInit, ActivePlatform, PastCheck, Phase, NoRow, NoCall
<1>2. Shapes
  BY NoCallIsFree DEF KeyInit, Shapes, NoRow, KeyRow
<1>3. CallsAreInPlace /\ TenantsAreNamed
  BY NoCallIsFree DEF KeyInit, CallsAreInPlace, TenantsAreNamed, NoRow, Issued
<1>4. SecretsAreIssued /\ BootstrapIsAlone
  BY <1>1 DEF KeyInit, SecretsAreIssued, BootstrapIsAlone
<1>5. PlatformKeyIsOne /\ PlatformKeyIsHeld /\ CredentialsBind
  BY <1>1 DEF KeyInit, PlatformKeyIsOne, PlatformKeyIsHeld, CredentialsBind, NoCall
<1> QED
  BY <1>2, <1>3, <1>4, <1>5 DEF KeysInd

\* Every step keeps the invariant of credentials.
LEMMA KeyStepInd == KeysInd /\ [KeyNext]_keyVars => KeysInd'
<1> SUFFICES ASSUME KeysInd, [KeyNext]_keyVars PROVE KeysInd'
  OBVIOUS
<1>1. CASE ExpireToken \/ \E c \in Call : MintToken(c)
  BY <1>1, TokensKeepInd
<1>2. ASSUME NEW c \in Call, Bootstrap(c) \/ CheckBootstrapped(c) \/ FindPlatformTenant(c)
      PROVE  KeysInd'
  BY <1>2, BootstrapKeepsInd
<1>3. ASSUME NEW c \in Call,
             Signup(c) \/ Act(c) \/ NameTenant(c) \/ ChooseScopes(c) \/ FindKey(c) \/ FailCall(c)
      PROVE  KeysInd'
  BY <1>3, CallKeepsInd
<1>4. ASSUME NEW c \in Call, CreateTenant(c) \/ IssueKey(c) \/ AnswerKey(c) \/ RevokeKey(c)
      PROVE  KeysInd'
  BY <1>4, CreateTenantKeepsInd, IssueKeyKeepsInd, AnswerKeyKeepsInd, RevokeKeyKeepsInd
<1>5. ASSUME NEW c \in Call, NEW op \in CallOp, AuthenticateKey(c, op) \/ AuthenticateToken(c, op)
      PROVE  KeysInd'
  BY <1>5, AuthenticateKeepsInd
<1>6. CASE UNCHANGED keyVars
  <2>1. UNCHANGED <<key, tenant, held, token, call, rival>>
    BY <1>6 DEF keyVars
  <2>2. Shapes' /\ SecretsAreIssued'
    BY <2>1 DEF KeysInd, Shapes, SecretsAreIssued, Issued
  <2>3. CallsAreInPlace' /\ TenantsAreNamed'
    BY <2>1 DEF KeysInd, CallsAreInPlace, InPlace, Issued, TenantsAreNamed, Reserves
  <2>4. BootstrapIsAlone'
    BY <2>1, Zenon DEF KeysInd, BootstrapIsAlone, PastCheck, Phase, ActivePlatform
  <2>5. PlatformKeyIsOne' /\ PlatformKeyIsHeld' /\ CredentialsBind'
    BY <2>1 DEF KeysInd, PlatformKeyIsOne, PlatformKeyIsHeld, CredentialsBind, ActivePlatform
  <2> QED
    BY <2>2, <2>3, <2>4, <2>5 DEF KeysInd
<1> QED
  BY <1>1, <1>2, <1>3, <1>4, <1>5, <1>6 DEF KeyNext

\* One platform key unless bootstraps raced, none that is locked away but by a
\* bootstrap that threw, and no call with rights its key has not: whatever is
\* issued, revoked, minted and failed side by side.
THEOREM KeysStayBound == KeySpec => []KeysInv
<1>1. KeysInd => KeysInv
  BY DEF KeysInd, KeysInv, KeyTypes, Shapes, KeyRow
<1> QED
  BY <1>1, KeyInitInd, KeyStepInd, PTL DEF KeySpec

-----------------------------------------------------------------------------
(* Signer and token bucket (PlatformEdge).                                 *)

SignerState == [at : {"none", "select", "insert", "again", "loaded", "rejected"},
                signer : Isolate \cup {NoSigner}]
VisitState == [at : {"idle", "signer", "bucket", "store", "admitted", "limited", "error", "gone"},
               in : Isolate \cup {NoSigner}, cost : Nat, tokens : Nat, now : Nat, stale : BOOLEAN]
EdgeShapes ==
  /\ stored \in Isolate \cup {NoSigner}
  /\ isolate \in [Isolate -> SignerState]
  /\ visit \in [Visit -> VisitState]
  /\ rate \in [tokens : Nat, at : Nat]
  /\ clock \in Nat /\ used \in Nat /\ collided \in BOOLEAN

\* An isolate has read the stored key, or the one it made is to be stored.
SignersAreStored ==
  \A i \in Isolate :
    /\ isolate[i].at = "insert" => isolate[i].signer = i
    /\ isolate[i].at = "again" => stored # NoSigner
    /\ isolate[i].at = "loaded" => isolate[i].signer = stored /\ stored # NoSigner

\* Time stamps are of the past; a row to be written holds a burst at most.
StampsArePast ==
  /\ rate.tokens <= Burst /\ rate.at <= clock
  /\ \A v \in Visit : visit[v].now <= clock /\ visit[v].tokens <= Burst

\* The row accounts for what was admitted, and so does what a request is about
\* to write, unless the row has been written since it was read.
SpendingIsAccounted ==
  collided = FALSE =>
    /\ used + rate.tokens <= Burst + Refill * rate.at
    /\ \A v \in Visit : visit[v].at = "store" /\ visit[v].stale = FALSE =>
         used + visit[v].tokens + visit[v].cost <= Burst + Refill * visit[v].now

EdgeInd == EdgeShapes /\ SignersAreStored /\ StampsArePast /\ SpendingIsAccounted

-----------------------------------------------------------------------------
\* Refilling over two spans is refilling over both together.
LEMMA RefillAdds ==
  ASSUME NEW r \in Nat, NEW m \in Nat, NEW n \in Nat
  PROVE  /\ (n - m) * r + r * m = r * n
         /\ m <= n => r * m <= r * n
         /\ r * m \in Nat
<1>1. (n - m) * r = r * n - r * m
  OBVIOUS
<1>2. m <= n => r * m <= r * n
  OBVIOUS
<1> QED
  BY <1>1, <1>2

\* No isolate has a signer at first and the bucket is full.
LEMMA EdgeInitInd == EdgeInit => EdgeInd
<1> SUFFICES ASSUME EdgeInit PROVE EdgeInd
  OBVIOUS
<1>1. EdgeShapes
  <2>1. NoVisit \in VisitState /\ NoLoad \in SignerState
    BY DEF NoVisit, VisitState, NoLoad, SignerState
  <2>2. rate \in [tokens : Nat, at : Nat]
    BY EdgeAssumption DEF EdgeInit
  <2> QED
    BY <2>1, <2>2 DEF EdgeInit, EdgeShapes
<1>4. SignersAreStored
  BY DEF EdgeInit, SignersAreStored, NoLoad
<1>5. StampsArePast
  BY EdgeAssumption DEF EdgeInit, StampsArePast, NoVisit
<1>2. Refill * 0 = 0
  BY EdgeAssumption
<1>3. SpendingIsAccounted
  BY <1>2, EdgeAssumption DEF EdgeInit, SpendingIsAccounted, NoVisit
<1> QED
  BY <1>1, <1>3, <1>4, <1>5 DEF EdgeInd

\* The loading of a signer touches no bucket.
LEMMA SignerKeepsInd ==
  ASSUME EdgeInd, NEW i \in Isolate,
         SelectSigner(i) \/ InsertSigner(i) \/ SelectAgain(i) \/ LoadFails(i)
  PROVE  EdgeInd'
<1>1. UNCHANGED <<visit, rate, clock, used, collided>>
  BY DEF SelectSigner, InsertSigner, SelectAgain, LoadFails
<1>2. isolate \in [Isolate -> SignerState] /\ stored \in Isolate \cup {NoSigner}
  BY DEF EdgeInd, EdgeShapes
<1>3. /\ isolate' \in [Isolate -> SignerState] /\ stored' \in Isolate \cup {NoSigner}
      /\ stored # NoSigner => stored' = stored
      /\ \A j \in Isolate \ {i} : isolate'[j] = isolate[j]
      /\ isolate'[i].at = "insert" => isolate'[i].signer = i
      /\ isolate'[i].at = "again" => stored' # NoSigner
      /\ isolate'[i].at = "loaded" => isolate'[i].signer = stored' /\ stored' # NoSigner
  <2>1. CASE SelectSigner(i)
    BY <1>2, <2>1 DEF SelectSigner, SignerState
  <2>2. CASE InsertSigner(i)
    BY <1>2, <2>2, EdgeAssumption DEF InsertSigner, SignerState, EdgeInd, SignersAreStored
  <2>3. CASE SelectAgain(i)
    BY <1>2, <2>3 DEF SelectAgain, SignerState, EdgeInd, SignersAreStored
  <2>4. CASE LoadFails(i)
    BY <1>2, <2>4 DEF LoadFails, SignerState
  <2> QED
    BY <2>1, <2>2, <2>3, <2>4
<1>4. EdgeShapes' /\ SignersAreStored'
  BY <1>1, <1>3 DEF EdgeInd, EdgeShapes, SignersAreStored
<1>5. StampsArePast' /\ SpendingIsAccounted'
  BY <1>1 DEF EdgeInd, StampsArePast, SpendingIsAccounted
<1> QED
  BY <1>4, <1>5 DEF EdgeInd

\* An isolate is replaced and what it had loaded is gone.
LEMMA ReplaceKeepsInd ==
  ASSUME EdgeInd, NEW i \in Isolate, ReplaceIsolate(i)
  PROVE  EdgeInd'
<1>1. UNCHANGED <<stored, rate, clock, used, collided>>
  BY DEF ReplaceIsolate
<1>2. \A v \in Visit :
        /\ visit'[v] \in VisitState
        /\ visit'[v].now = visit[v].now /\ visit'[v].tokens = visit[v].tokens
        /\ visit'[v].at = "store" => visit'[v] = visit[v]
  BY DEF ReplaceIsolate, EdgeInd, EdgeShapes, VisitState
<1>3. isolate' \in [Isolate -> SignerState] /\ visit' \in [Visit -> VisitState]
  BY <1>2 DEF ReplaceIsolate, EdgeInd, EdgeShapes, NoLoad, SignerState
<1>4. EdgeShapes' /\ SignersAreStored'
  BY <1>1, <1>3 DEF ReplaceIsolate, NoLoad, EdgeInd, EdgeShapes, SignersAreStored
<1>5. StampsArePast'
  BY <1>1, <1>2 DEF EdgeInd, StampsArePast
<1>6. SpendingIsAccounted'
  BY <1>1, <1>2 DEF EdgeInd, SpendingIsAccounted
<1> QED
  BY <1>4, <1>5, <1>6 DEF EdgeInd

\* A request on its way to the bucket has written nothing.
LEMMA ReachKeepsInd ==
  ASSUME EdgeInd, NEW v \in Visit, Reach(v) \/ AwaitSigner(v)
  PROVE  EdgeInd'
<1>1. UNCHANGED <<stored, rate, clock, used, collided>>
  BY DEF Reach, AwaitSigner
<1>2. /\ visit' \in [Visit -> VisitState] /\ isolate' \in [Isolate -> SignerState]
      /\ \A w \in Visit \ {v} : visit'[w] = visit[w]
      /\ visit'[v].now \in {visit[v].now, clock} /\ visit'[v].tokens = visit[v].tokens
      /\ visit'[v].at # "store"
      /\ \A i \in Isolate : isolate'[i].at \in {isolate[i].at, "select"}
                             /\ isolate'[i].signer = isolate[i].signer
  <2>1. CASE Reach(v)
    <3>1. PICK i \in Isolate, cost \in VisitCost :
            /\ visit' = [visit EXCEPT ![v].at = "signer", ![v].in = i, ![v].cost = cost]
            /\ isolate' = IF isolate[i].at = "none" THEN [isolate EXCEPT ![i].at = "select"] ELSE isolate
      BY <2>1 DEF Reach
    <3>2. cost \in Nat
      BY EdgeAssumption
    <3>3. /\ visit' \in [Visit -> VisitState] /\ \A w \in Visit \ {v} : visit'[w] = visit[w]
          /\ visit'[v].now = visit[v].now /\ visit'[v].tokens = visit[v].tokens
          /\ visit'[v].at = "signer"
      BY <3>1, <3>2, ZenonT(40) DEF EdgeInd, EdgeShapes, VisitState
    <3>4. /\ isolate' \in [Isolate -> SignerState]
          /\ \A j \in Isolate : isolate'[j].at \in {isolate[j].at, "select"}
                                 /\ isolate'[j].signer = isolate[j].signer
      BY <3>1 DEF EdgeInd, EdgeShapes, SignerState
    <3> QED
      BY <3>3, <3>4
  <2>2. CASE AwaitSigner(v)
    <3> DEFINE at == IF isolate[visit[v].in].at = "loaded" THEN "bucket" ELSE "error"
    <3>1. visit' = [visit EXCEPT ![v].at = at, ![v].now = clock] /\ isolate' = isolate
      BY <2>2 DEF AwaitSigner
    <3>2. at \in {"bucket", "error"} /\ clock \in Nat
      BY DEF EdgeInd, EdgeShapes
    <3> HIDE DEF at
    <3> QED
      BY <3>1, <3>2 DEF EdgeInd, EdgeShapes, VisitState
  <2> QED
    BY <2>1, <2>2
<1>3. EdgeShapes' /\ SignersAreStored'
  BY <1>1, <1>2 DEF EdgeInd, EdgeShapes, SignersAreStored
<1>4. StampsArePast'
  BY <1>1, <1>2 DEF EdgeInd, EdgeShapes, StampsArePast
<1>5. SpendingIsAccounted'
  BY <1>1, <1>2 DEF EdgeInd, SpendingIsAccounted
<1> QED
  BY <1>3, <1>4, <1>5 DEF EdgeInd

\* A request reads the bucket and computes what it will write.
LEMMA ReadKeepsInd ==
  ASSUME EdgeInd, NEW v \in Visit, ReadBucket(v)
  PROVE  EdgeInd'
<1>1. UNCHANGED <<stored, isolate, rate, clock, used, collided>>
  BY DEF ReadBucket
<1> DEFINE filled == Filled(visit[v].now)
<1>2. /\ filled \in Int /\ filled <= Burst
      /\ filled <= rate.tokens + (visit[v].now - rate.at) * Refill
  BY EdgeAssumption DEF Filled, EdgeInd, EdgeShapes, VisitState
<1>3. CASE filled < visit[v].cost
  <2>1. visit' = [visit EXCEPT ![v].at = "limited"]
    BY <1>3 DEF ReadBucket
  <2>2. /\ visit' \in [Visit -> VisitState]
        /\ \A w \in Visit : visit'[w].now = visit[w].now /\ visit'[w].tokens = visit[w].tokens
                              /\ (visit'[w].at = "store" => visit'[w] = visit[w])
    BY <2>1 DEF EdgeInd, EdgeShapes, VisitState
  <2> QED
    BY <1>1, <2>2 DEF EdgeInd, EdgeShapes, SignersAreStored, StampsArePast, SpendingIsAccounted
<1>4. CASE ~(filled < visit[v].cost)
  <2>1. visit' = [visit EXCEPT ![v].at = "store", ![v].tokens = filled - visit[v].cost]
    BY <1>4 DEF ReadBucket
  <2>2. visit[v] \in VisitState /\ visit[v].cost \in Nat /\ visit[v].now \in Nat
    BY DEF EdgeInd, EdgeShapes, VisitState
  <2>3. filled - visit[v].cost \in Nat /\ filled - visit[v].cost <= Burst
    BY <1>2, <1>4, <2>2, EdgeAssumption
  <2> HIDE DEF filled
  <2>4. /\ visit' \in [Visit -> VisitState]
        /\ \A w \in Visit \ {v} : visit'[w] = visit[w]
        /\ visit'[v].tokens = filled - visit[v].cost
        /\ visit'[v].now = visit[v].now /\ visit'[v].cost = visit[v].cost
    BY <2>1, <2>2, <2>3 DEF EdgeInd, EdgeShapes, VisitState
  <2>5. collided = FALSE => used + filled <= Burst + Refill * visit[v].now
    <3> SUFFICES ASSUME collided = FALSE PROVE used + filled <= Burst + Refill * visit[v].now
      OBVIOUS
    <3>1. used + rate.tokens <= Burst + Refill * rate.at
      BY DEF EdgeInd, SpendingIsAccounted
    <3>2. /\ rate.at \in Nat /\ rate.tokens \in Nat /\ used \in Nat /\ Refill \in Nat /\ Burst \in Nat
      BY EdgeAssumption DEF EdgeInd, EdgeShapes
    <3>3. (visit[v].now - rate.at) * Refill + Refill * rate.at = Refill * visit[v].now
      BY <2>2, <3>2, RefillAdds
    <3>4. Refill * rate.at \in Nat /\ Refill * visit[v].now \in Nat
          /\ (visit[v].now - rate.at) * Refill \in Int
      BY <2>2, <3>2, RefillAdds
    <3> QED
      BY <1>2, <3>1, <3>2, <3>3, <3>4
  <2>6. EdgeShapes' /\ SignersAreStored'
    BY <1>1, <2>4 DEF EdgeInd, EdgeShapes, SignersAreStored
  <2>7. StampsArePast'
    BY <1>1, <2>3, <2>4 DEF EdgeInd, StampsArePast
  <2>8. used + visit'[v].tokens + visit'[v].cost = used + filled
    BY <1>2, <2>2, <2>4 DEF EdgeInd, EdgeShapes
  <2>9. SpendingIsAccounted'
    BY <1>1, <2>4, <2>5, <2>8 DEF EdgeInd, SpendingIsAccounted
  <2> QED
    BY <2>6, <2>7, <2>9 DEF EdgeInd
<1> QED
  BY <1>3, <1>4

\* A write with or without an answer: the row takes over what it accounts for,
\* and everybody else's copy is stale.
LEMMA StoreKeepsInd ==
  ASSUME EdgeInd, NEW v \in Visit, NEW end \in {"admitted", "error"}, visit[v].at = "store",
         StoreBucket(v, end), UNCHANGED <<stored, isolate, clock>>,
         used' \in {used, used + visit[v].cost}
  PROVE  EdgeInd'
<1>1. /\ visit' \in [Visit -> VisitState]
      /\ \A w \in Visit : visit'[w].at = "store" => visit[w].at = "store" /\ visit'[w].stale = TRUE
      /\ \A w \in Visit : visit'[w].now = visit[w].now /\ visit'[w].tokens = visit[w].tokens
  BY ZenonT(40) DEF StoreBucket, EdgeInd, EdgeShapes, VisitState
<1>2. /\ visit[v].cost \in Nat /\ visit[v].tokens \in Nat /\ visit[v].now \in Nat
      /\ used \in Nat /\ used' \in Nat /\ used' <= used + visit[v].cost
      /\ visit[v].stale \in BOOLEAN
  BY DEF EdgeInd, EdgeShapes, VisitState
<1>3. rate' = [tokens |-> visit[v].tokens, at |-> visit[v].now] /\ collided' = (collided \/ visit[v].stale)
  BY DEF StoreBucket
<1>4. EdgeShapes' /\ SignersAreStored'
  BY <1>1, <1>2, <1>3 DEF EdgeInd, EdgeShapes, SignersAreStored
<1>5. StampsArePast'
  BY <1>1, <1>3 DEF EdgeInd, StampsArePast
<1>6. SpendingIsAccounted'
  <2>1. ASSUME collided' = FALSE PROVE used' + rate'.tokens <= Burst + Refill * rate'.at
    <3>1. collided = FALSE /\ visit[v].stale = FALSE
      BY <1>2, <1>3, <2>1 DEF EdgeInd, EdgeShapes
    <3>2. used + visit[v].tokens + visit[v].cost <= Burst + Refill * visit[v].now
      BY <3>1 DEF EdgeInd, SpendingIsAccounted
    <3>3. Refill * visit[v].now \in Nat
      BY <1>2, EdgeAssumption, RefillAdds
    <3> QED
      BY <1>2, <1>3, <3>2, <3>3, EdgeAssumption
  <2> QED
    BY <1>1, <2>1 DEF SpendingIsAccounted
<1> QED
  BY <1>4, <1>5, <1>6 DEF EdgeInd

\* A request writes the bucket, over whatever was written meanwhile, or fails.
LEMMA WriteKeepsInd ==
  ASSUME EdgeInd, NEW v \in Visit, WriteBucket(v) \/ VisitFails(v)
  PROVE  EdgeInd'
<1>1. CASE WriteBucket(v)
  BY <1>1, StoreKeepsInd DEF WriteBucket
<1>2. CASE VisitFails(v) /\ visit[v].at = "store" /\ StoreBucket(v, "error")
  BY <1>2, StoreKeepsInd DEF VisitFails
<1>3. CASE visit' = [visit EXCEPT ![v].at = "error"]
           /\ UNCHANGED <<stored, isolate, rate, clock, used, collided>>
  <2>1. /\ visit' \in [Visit -> VisitState]
        /\ \A w \in Visit : visit'[w].now = visit[w].now /\ visit'[w].tokens = visit[w].tokens
                              /\ (visit'[w].at = "store" => visit'[w] = visit[w])
    BY <1>3 DEF EdgeInd, EdgeShapes, VisitState
  <2> QED
    BY <1>3, <2>1 DEF EdgeInd, EdgeShapes, SignersAreStored, StampsArePast, SpendingIsAccounted
<1> QED
  BY <1>1, <1>2, <1>3 DEF VisitFails

\* Every step keeps the invariant of signer and bucket.
LEMMA EdgeStepInd == EdgeInd /\ [EdgeNext]_edgeVars => EdgeInd'
<1> SUFFICES ASSUME EdgeInd, [EdgeNext]_edgeVars PROVE EdgeInd'
  OBVIOUS
<1>1. ASSUME NEW i \in Isolate, SelectSigner(i) \/ InsertSigner(i) \/ SelectAgain(i) \/ LoadFails(i)
      PROVE  EdgeInd'
  BY <1>1, SignerKeepsInd
<1>2. ASSUME NEW i \in Isolate, ReplaceIsolate(i) PROVE EdgeInd'
  BY <1>2, ReplaceKeepsInd
<1>3. ASSUME NEW v \in Visit, Reach(v) \/ AwaitSigner(v) \/ ReadBucket(v) PROVE EdgeInd'
  BY <1>3, ReachKeepsInd, ReadKeepsInd
<1>4. ASSUME NEW v \in Visit, WriteBucket(v) \/ VisitFails(v) PROVE EdgeInd'
  BY <1>4, WriteKeepsInd
<1>5. CASE Second
  BY <1>5 DEF Second, EdgeInd, EdgeShapes, VisitState, SignersAreStored, StampsArePast, SpendingIsAccounted
<1>6. CASE UNCHANGED edgeVars
  BY <1>6 DEF edgeVars, EdgeInd, EdgeShapes, SignersAreStored, StampsArePast, SpendingIsAccounted
<1> QED
  BY <1>1, <1>2, <1>3, <1>4, <1>5, <1>6 DEF EdgeNext

\* Every isolate signs with the one stored key, and a key is admitted no more
\* than burst and refill unless requests overlapped at its bucket: for any
\* isolates, requests, costs and rates.
THEOREM EdgeStaysBounded == EdgeSpec => []EdgeInv
<1>1. ASSUME EdgeInd PROVE EdgeInv
  <2>1. EdgeTypes /\ SignersAgree
    BY <1>1, EdgeAssumption DEF EdgeInd, EdgeShapes, SignerState, StampsArePast, SignersAreStored,
       EdgeTypes, SignersAgree
  <2>2. ASSUME ~collided PROVE used <= Burst + Refill * clock
    <3>1. used + rate.tokens <= Burst + Refill * rate.at
      BY <1>1, <2>2 DEF EdgeInd, EdgeShapes, SpendingIsAccounted
    <3>2. /\ rate.at \in Nat /\ clock \in Nat /\ rate.at <= clock /\ rate.tokens \in Nat
          /\ used \in Nat /\ Refill \in Nat /\ Burst \in Nat
      BY <1>1, EdgeAssumption DEF EdgeInd, EdgeShapes, StampsArePast
    <3>3. Refill * rate.at <= Refill * clock /\ Refill * rate.at \in Nat /\ Refill * clock \in Nat
      BY <3>2, RefillAdds
    <3> QED
      BY <3>1, <3>2, <3>3
  <2> QED
    BY <2>1, <2>2 DEF EdgeInv, OnlyOverlapOverspends
<1> QED
  BY <1>1, EdgeInitInd, EdgeStepInd, PTL DEF EdgeSpec

==============================================================================
