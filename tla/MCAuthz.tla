------------------------------- MODULE MCAuthz -------------------------------
(* Authz with two versions of the policy: in the second one operators are   *)
(* users only, root is no administrator, users may do more and are banned.  *)
EXTENDS Authz

MCVersion ==
    {[actions |-> {"add_rule"}, admins |-> {"root", "ddmlab"},
      odrl |-> TierPolicy({"operators"}, {"users"}, "mfa")],
     [actions |-> {"add_rule", "del_rule"}, admins |-> {"ddmlab"},
      odrl |-> TierPolicy({}, {"users", "operators"}, "mfa")
               \cup {[permission |-> {}, prohibition |-> {TierRule("user", "users", {})}]}]}
==============================================================================
