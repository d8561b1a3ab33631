--------------------------- MODULE MCTenantReview ---------------------------
\* Instances of TenantReview for TLC.
EXTENDS TenantReview, TLC

Alike == Permutations(Tenants) \cup Permutations(Numbers)
           \cup Permutations(Requests) \cup Permutations(Emails)
ReviewOps == {"signup", "create", "onboard", "approve", "reject"}
RoutingOps == {"register", "approve", "update", "resolve"}
LiveOrWaiting == {"active", "pending_approval"}
=============================================================================
