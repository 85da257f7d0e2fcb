---------------------------- MODULE TrustPolicy ----------------------------
(***************************************************************************)
(* Who may sign a reference (internal/trustpolicy/policy.go, and           *)
(* internal/cli/policy.go and sign.go that read it out of the config): a   *)
(* list of rules, the first whose pattern matches deciding, or one key.    *)
(*                                                                         *)
(* A repository is a sequence of segments, a pattern likewise.  A file     *)
(* named in the config is a key, or a trusted root, or one that cannot be  *)
(* read and stands for itself in `unreadable`.                             *)
(***************************************************************************)
EXTENDS Keyless

\* validateRule: someone is named, and identities come with the root they
\* are checked against.
ValidRule(rule) ==
  /\ ValidPattern(rule.pattern)
  /\ rule.keys # <<>> \/ rule.identities # {}
  /\ (rule.identities # {}) <=> (rule.root # None)
  /\ \A id \in rule.identities : ValidIdentity(id)

\* loadPolicy and New: a policy that is set has rules, and each is valid.
ReadablePolicy(rules) ==
  rules # <<>> /\ \A i \in DOMAIN rules : ValidRule(rules[i])

\* The first rule to match decides, and where none does nobody may sign.
Matching(rules, repository) ==
  {i \in DOMAIN rules : Match(rules[i].pattern, repository)}

RuleFor(rules, repository) ==
  LET found == Matching(rules, repository)
  IN IF found = {} THEN None ELSE rules[Min(found)]

-----------------------------------------------------------------------------
Signers(keys, identities, root) ==
  [keys |-> keys, identities |-> identities, root |-> root]

\* Nobody: what is asked for cannot be read, or no rule covers it.
Nobody == Signers(<<>>, {}, None)

KeysOnly(keys, unreadable) ==
  IF ToSet(keys) \cap unreadable # {} THEN Nobody ELSE Signers(keys, {}, None)

\* resolveVerifiers: a key that was asked for overrides the policy and rules
\* out keyless; without a policy the configured key is the only one.
ResolveVerifiers(config, flag, repository) ==
  IF flag # None THEN KeysOnly(<<flag>>, config.unreadable)
  ELSE IF config.policy = None
  THEN IF config.key = None THEN Nobody ELSE KeysOnly(<<config.key>>, config.unreadable)
  ELSE LET rule == RuleFor(config.policy, repository)
       IN IF ~ReadablePolicy(config.policy) \/ rule = None THEN Nobody
          ELSE IF ToSet(rule.keys) \cap config.unreadable # {} THEN Nobody
          ELSE Signers(rule.keys, rule.identities, rule.root)
=============================================================================
