-------------------------------- MODULE Authz -------------------------------
(***************************************************************************)
(* The authorization engines: rushwind-authz-rbac, -acl and -noop, their   *)
(* decisions and their live policy.  A name or a pattern is a sequence of  *)
(* letters.  A decision, and a bulk filter, runs under one read lock; an   *)
(* install of an rbac policy takes the write lock twice, once per map.     *)
(***************************************************************************)
EXTENDS Integers, Sequences, FiniteSets, SequencesExt

CONSTANTS Policies,    \* the policies that may be installed, by name
          PermissionsOf, RolesOf, RulesOf,   \* their payloads, NoPayload when it does not deserialize
          NoPayload,
          Wildcard,
          Subjects, Wanted,   \* subjects, and <<action, resource>> pairs, asked about
          Installers, MaxInstalls

VARIABLES
  engine,         \* "rbac", "acl" or "noop", with acl's two switches
  permissions,    \* rbac: role -> sequence of [resource, action]
  user_roles,     \* rbac: user or role -> sequence of roles
  rules,          \* acl: sequence of [subject, action, resource, effect]
  install,        \* what each installer is doing
  installs,
  latest,         \* the policy last begun, and whether it overlapped another
  answer          \* the last bulk answer

authzVars == <<engine, permissions, user_roles, rules, install, installs, latest, answer>>

-----------------------------------------------------------------------------
(* The matcher both engines share: the wildcard itself, a literal, a       *)
(* prefix, a suffix, in that order.                                        *)
MatchesPattern(pattern, value) ==
  \/ pattern = Wildcard
  \/ pattern = value
  \/ IF IsSuffix(Wildcard, pattern)
     THEN IsPrefix(SubSeq(pattern, 1, Len(pattern) - Len(Wildcard)), value)
     ELSE /\ IsPrefix(Wildcard, pattern)
          /\ IsSuffix(SubSeq(pattern, Len(Wildcard) + 1, Len(pattern)), value)

(* rbac: the roles of a name, depth first, never expanding a name twice.   *)
(* A place is the k-th membership of a name and the names visited so far:  *)
(* the code hands that set on by reference, so it only grows.              *)
Of(map, key) == IF key \in DOMAIN map THEN map[key] ELSE <<>>

NamesOf(map, subject) == {subject} \cup DOMAIN map \cup UNION {ToSet(map[k]) : k \in DOMAIN map}

Places(map, subject) == NamesOf(map, subject) \X (Nat \ {0}) \X SUBSET NamesOf(map, subject)

Resolved(roles, visited) == [roles |-> roles, visited |-> visited]

Rest(map, resolve, name, k, visited) ==
  IF k > Len(Of(map, name)) THEN Resolved({}, visited)
  ELSE LET role == Of(map, name)[k]
           below == IF role \in visited THEN Resolved({}, visited)
                    ELSE resolve[<<role, 1, visited \cup {role}>>]
           rest == resolve[<<name, k + 1, visited \cup below.visited>>]
       IN  Resolved({role} \cup below.roles \cup rest.roles, rest.visited)

ResolveRoles(map, subject) ==
  LET resolve[q \in Places(map, subject)] == Rest(map, resolve, q[1], q[2], q[3])
  IN  resolve[<<subject, 1, {subject}>>].roles

RbacEvaluate(perms, map, subject, action, resource) ==
  \E role \in ResolveRoles(map, subject) : \E i \in DOMAIN Of(perms, role) :
     /\ MatchesPattern(perms[role][i].resource, resource)
     /\ MatchesPattern(perms[role][i].action, action)

(* acl: every matching rule is collected, then override and default.       *)
AclEvaluate(list, subject, action, resource) ==
  LET matching == {i \in DOMAIN list : /\ MatchesPattern(list[i].subject, subject)
                                       /\ MatchesPattern(list[i].action, action)
                                       /\ MatchesPattern(list[i].resource, resource)}
      denied == \E i \in matching : list[i].effect = "deny"
      allowed == \E i \in matching : list[i].effect # "deny"
  IN  ~(engine.deny_overrides /\ denied) /\ (allowed \/ ~engine.default_deny)

Evaluate(perms, map, list, subject, action, resource) ==
  CASE engine.kind = "rbac" -> RbacEvaluate(perms, map, subject, action, resource)
    [] engine.kind = "acl" -> AclEvaluate(list, subject, action, resource)
    [] OTHER -> TRUE

(* filter_authorized_pairs: what any of the subjects may do, in order.     *)
Only(pairs, allowed) == SelectSeq(pairs, LAMBDA p : p \in allowed)

FilterPairs(perms, map, list, subjects, pairs) ==
  IF engine.kind = "noop" THEN <<>>
  ELSE Only(pairs, {p \in ToSet(pairs) : \E s \in subjects : Evaluate(perms, map, list, s, p[1], p[2])})

(* projects_authorized: no engine knows projects, so all or none.          *)
AllProjects(perms, map, list, subjects, pair) ==
  engine.kind # "noop" /\ \E s \in subjects : Evaluate(perms, map, list, s, pair[1], pair[2])

-----------------------------------------------------------------------------
(* set_policies: rbac takes the permissions, then, under a lock of its     *)
(* own, the roles; acl takes the rules.  A payload that does not           *)
(* deserialize leaves its map as it was.                                   *)
Taken(payload, current) == IF payload = NoPayload THEN current ELSE payload

InstallFirst(i, p) ==
  /\ install[i] = "none" /\ installs < MaxInstalls
  /\ installs' = installs + 1
  /\ latest' = [policy |-> p, alone |-> \A j \in Installers : install[j] = "none"]
  /\ permissions' = IF engine.kind = "rbac" THEN Taken(PermissionsOf[p], permissions) ELSE permissions
  /\ rules' = IF engine.kind = "acl" THEN Taken(RulesOf[p], rules) ELSE rules
  /\ install' = IF engine.kind = "rbac" THEN [install EXCEPT ![i] = p] ELSE install
  /\ UNCHANGED <<engine, user_roles, answer>>

InstallSecond(i) ==
  /\ install[i] # "none"
  /\ user_roles' = Taken(RolesOf[install[i]], user_roles)
  /\ install' = [install EXCEPT ![i] = "none"]
  /\ UNCHANGED <<engine, permissions, rules, installs, latest, answer>>

(* A list endpoint asks for the pairs its caller may see.                  *)
Ask(subjects) ==
  /\ answer' = [for |-> subjects,
                pairs |-> FilterPairs(permissions, user_roles, rules, subjects, Wanted),
                projects |-> AllProjects(permissions, user_roles, rules, subjects, Wanted[1]),
                policy |-> latest.policy, whole |-> latest.alone /\ \A i \in Installers : install[i] = "none"]
  /\ UNCHANGED <<engine, permissions, user_roles, rules, install, installs, latest>>

Engines == {[kind |-> k, default_deny |-> TRUE, deny_overrides |-> TRUE] : k \in {"rbac", "noop"}}
             \cup [kind : {"acl"}, default_deny : BOOLEAN, deny_overrides : BOOLEAN]

AuthzInit ==
  /\ engine \in Engines
  /\ permissions = << >> /\ user_roles = << >> /\ rules = <<>>
  /\ install = [i \in Installers |-> "none"] /\ installs = 0
  /\ latest = [policy |-> "none", alone |-> TRUE]
  /\ answer = [for |-> {}, pairs |-> <<>>, projects |-> FALSE, policy |-> "none", whole |-> FALSE]

AuthzNext ==
  \/ \E i \in Installers, p \in Policies : InstallFirst(i, p)
  \/ \E i \in Installers : InstallSecond(i)
  \/ \E subjects \in SUBSET Subjects : Ask(subjects)

AuthzSpec == AuthzInit /\ [][AuthzNext]_authzVars

-----------------------------------------------------------------------------
(* What the roles of a name are, by definition: the least set that holds   *)
(* its memberships and, with a name, the memberships of that.              *)
Closed(map, roles) == \A r \in roles : ToSet(Of(map, r)) \subseteq roles

Reachable(map, subject) ==
  {r \in NamesOf(map, subject) :
     \A roles \in SUBSET NamesOf(map, subject) :
        Closed(map, roles) /\ ToSet(Of(map, subject)) \subseteq roles => r \in roles}

(* What a pattern means, by definition: the wildcard stands for any text.  *)
GlobMatches(pattern, value) ==
  IF ~ \E i \in DOMAIN pattern : <<pattern[i]>> = Wildcard THEN pattern = value
  ELSE \E i \in DOMAIN pattern :
         LET before == SubSeq(pattern, 1, i - 1)
             after == SubSeq(pattern, i + 1, Len(pattern))
         IN  /\ <<pattern[i]>> = Wildcard
             /\ IsPrefix(before, value) /\ IsSuffix(after, value) /\ Len(before) + Len(after) <= Len(value)

(* Whatever the cycles among the memberships, resolve_roles is the closure *)
(* of the role graph (rbac lib.rs, resolve_roles).                         *)
Graph3 == [{"u", "r", "t"} -> {<<>>, <<"r">>, <<"t">>, <<"u">>, <<"r", "t">>, <<"t", "u">>, <<"r", "r">>}]
ClosureIsReachability ==
  \A map \in Graph3, subject \in {"u", "r", "t"} : ResolveRoles(map, subject) = Reachable(map, subject)

(* A pattern with at most one wildcard, first or last, means what globs    *)
(* mean (matches_pattern of acl and rbac); a wildcard in the middle is a   *)
(* literal and two of them are not a substring match.                      *)
Texts == UNION {[1 .. n -> {"a", "b"}] : n \in 0 .. 3}
PatternsAreGlobs ==
  \A value \in Texts, text \in Texts :
     /\ MatchesPattern(text, value) <=> GlobMatches(text, value)
     /\ MatchesPattern(text \o Wildcard, value) <=> GlobMatches(text \o Wildcard, value)
     /\ MatchesPattern(Wildcard \o text, value) <=> GlobMatches(Wildcard \o text, value)

(* Rules have no order: any rearrangement decides the same.                *)
RulesHaveNoOrder ==
    \A p \in Policies : RulesOf[p] # NoPayload =>
      \A s \in Subjects, i \in DOMAIN Wanted :
         AclEvaluate(RulesOf[p], s, Wanted[i][1], Wanted[i][2]) =
         AclEvaluate(Reverse(RulesOf[p]), s, Wanted[i][1], Wanted[i][2])

(* The three decisions against their definitions.                          *)
DecisionsMatchTheirDefinition == ClosureIsReachability /\ PatternsAreGlobs /\ RulesHaveNoOrder

(* After installs that did not overlap, the list answers with what the     *)
(* last policy grants each subject alone, taken whole: both its maps, and  *)
(* nothing of an older one but what its own payload failed to replace      *)
(* (set_policies, filter_authorized_pairs; "a list endpoint never shows a  *)
(* row the subject could not have fetched individually").                  *)
ListShowsTheLastPolicy ==
  answer.whole /\ answer.policy \in Policies /\ engine.kind # "noop" =>
    LET p == answer.policy
        known == IF engine.kind = "acl" THEN RulesOf[p] # NoPayload
                 ELSE PermissionsOf[p] # NoPayload /\ RolesOf[p] # NoPayload
        granted(s, pair) ==
          IF engine.kind = "acl" THEN AclEvaluate(RulesOf[p], s, pair[1], pair[2])
          ELSE \E r \in Reachable(RolesOf[p], s) : \E k \in DOMAIN Of(PermissionsOf[p], r) :
                 /\ GlobMatches(PermissionsOf[p][r][k].action, pair[1])
                 /\ GlobMatches(PermissionsOf[p][r][k].resource, pair[2])
        anyone(pair) == \E s \in answer.for : granted(s, pair)
    IN  known => /\ answer.pairs = Only(Wanted, {pair \in ToSet(Wanted) : anyone(pair)})
                 /\ answer.projects = anyone(Wanted[1])
=============================================================================
