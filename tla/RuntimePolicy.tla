---------------------------- MODULE RuntimePolicy ----------------------------
(***************************************************************************)
(* internal/runtime/policy.go and capabilities.go: the recipient's policy, *)
(* what a request can make of it, and which policies a runtime accepts.    *)
(* The lists of denied tools and commands are left out.                    *)
(***************************************************************************)
EXTENDS FiniteSets

Modes == {"read_only", "guarded_write", "custom"}
Permissions == {"writes", "shell", "network", "mcps"}
Policies == [mode : Modes, allow : SUBSET Permissions]

(* "" and "unset" are what a request leaves out.                           *)
PolicyRequests == [mode : Modes \cup {""}, allow : [Permissions -> {"unset", "yes", "no"}]]
EmptyRequest == [mode |-> "", allow |-> [p \in Permissions |-> "unset"]]

Controls == {"read_only", "guarded_write", "filesystem", "network", "shell", "mcps", "destructive"}

(* Read-only is no writes, no shell and no MCPs, whatever was configured.  *)
normalizePolicy(p) ==
  [p EXCEPT !.allow = IF p.mode = "read_only" THEN @ \ {"writes", "shell", "mcps"} ELSE @]

DefaultPolicy(mode) ==
  normalizePolicy([mode |-> mode, allow |-> IF mode = "guarded_write" THEN Permissions ELSE {}])

(* What the request leaves allowed.                                        *)
Limit(r) == {p \in (IF r.mode = "" THEN Permissions ELSE DefaultPolicy(r.mode).allow) :
               r.allow[p] # "no"}

(* Local and requested: a request never turns a permission on.             *)
EffectivePolicy(l, r) ==
  LET v == normalizePolicy(l)
      allow == v.allow \cap Limit(r)
      mode == IF allow \cap {"writes", "shell", "mcps"} = {} THEN "read_only"
              ELSE IF allow = v.allow THEN v.mode ELSE "custom"
  IN IF r = EmptyRequest THEN v ELSE normalizePolicy([mode |-> mode, allow |-> allow])

(* The controls a runtime must enforce before it may run under p.          *)
Required(p) ==
  {IF "writes" \in p.allow THEN "guarded_write" ELSE "read_only", "filesystem", "destructive"}
    \cup ({"network", "shell", "mcps"} \ p.allow)

ValidatePolicySupport(controls, p) == Required(normalizePolicy(p)) \subseteq controls
=============================================================================
