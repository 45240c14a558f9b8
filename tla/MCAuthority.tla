---------------------------- MODULE MCAuthority ----------------------------
(* Instances for TLC of what decides who may do what and what a value may    *)
(* be: the credentials of the platform, the identity graph and its keys, the *)
(* governed decoding of a model's answer, and the operators' console.  They  *)
(* share no state; each behaviour is of one of them, its part.               *)
EXTENDS PlatformKeys, IdentityLog, GovernedDecode, Derivation, OpsConsole, TLC
CONSTANTS
  x1, x2, k1, k2, t1, t2,                 \* actors, keys, tenants
  wide, narrow,                           \* values, one below the other
  us, tx, rrc, txz, typo, Tt, Tu, Tr, Tz, \* a vocabulary and its tokens
  d1, p1, p2, a1, a2, a3

VARIABLE part

MCParent == wide :> TopValue @@ narrow :> wide

\* us is broader than tx, tx than rrc; txz and typo are one edit from tx, and
\* ABSTAIN begins with a token no other word has.
MCEncode == (us :> <<Tu>>) @@ (tx :> <<Tu, Tt>>) @@ (rrc :> <<Tt, Tr>>) @@ (txz :> <<Tu, Tz>>)
              @@ (typo :> <<Tr>>) @@ (Abstain :> <<Tz, Tz>>)
MCBroader == (rrc :> tx) @@ (tx :> us)
MCNorm == (us :> 1) @@ (tx :> 2) @@ (rrc :> 3) @@ (txz :> 4) @@ (typo :> 5)
            @@ (Abstain :> 8) @@ (Fragment :> 9)
MCOneEdit == {{2, 5}, {4, 5}, {2, 4}}
MCSlots ==
  {[kind |-> "code", admissible |-> {tx}], [kind |-> "enum", admissible |-> {tx}],
   [kind |-> "enum", admissible |-> {tx, txz}], [kind |-> "enum", admissible |-> {}],
   [kind |-> "span", admissible |-> {}]}
MCStatement ==
  {[infers |-> TRUE, signer |-> "none", traces |-> "Recent", input |-> i] : i \in 1 .. 2}
  \cup {[infers |-> FALSE, signer |-> "human", traces |-> t, input |-> 1] :
          t \in {"Recent", "Attested"}}
MCTier == <<"analyst", "firm">>

Parts == {"keys", "log", "extract", "decode",
          "derivation", "agent", "content", "sync", "plan", "sign-in"}
MCInit ==
  /\ part \in Parts
  /\ KeyInit
  /\ LogInit
  /\ DecodeInit
  /\ DerivationInit
  /\ ConsoleInit /\ plan = p1 /\ finix = <<0, 1>>

Of(name, next) == part = name /\ next /\ UNCHANGED part
Console ==
  \/ Of("agent", AgentNext) /\ UNCHANGED <<contentVars, syncVars, planVars, signInVars>>
  \/ Of("content", ContentNext) /\ UNCHANGED <<agentVars, syncVars, planVars, signInVars>>
  \/ Of("sync", SyncNext) /\ UNCHANGED <<agentVars, contentVars, planVars, signInVars>>
  \/ Of("plan", PlanNext) /\ UNCHANGED <<agentVars, contentVars, syncVars, signInVars>>
  \/ Of("sign-in", SignInNext) /\ UNCHANGED <<agentVars, contentVars, syncVars, planVars>>
MCNext ==
  \/ Of("keys", KeyNext) /\ UNCHANGED <<logVars, decodeVars, derivationVars, consoleVars>>
  \/ Of("log", LogNext) /\ UNCHANGED <<keyVars, decodeVars, derivationVars, consoleVars>>
  \/ /\ Of("extract", ExtractNext) \/ Of("decode", DecodeStep)
     /\ UNCHANGED <<keyVars, logVars, derivationVars, consoleVars>>
  \/ Of("derivation", DerivationNext) /\ UNCHANGED <<keyVars, logVars, decodeVars, consoleVars>>
  \/ Console /\ UNCHANGED <<keyVars, logVars, decodeVars, derivationVars>>
MCSpec == MCInit /\ [][MCNext]_<<part, keyVars, logVars, decodeVars, derivationVars, consoleVars>>

Symmetry == Permutations({x1, x2}) \cup Permutations({k1, k2}) \cup Permutations({t1, t2})
=============================================================================
