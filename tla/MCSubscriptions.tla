--------------------------- MODULE MCSubscriptions ---------------------------
(* Small instances of Subscriptions. *)
EXTENDS SubscriptionsService, TLC

OneOwner == [j \in Jobs |-> "ada"]
OwnRequests == [j \in Jobs |-> j]
OneSubscription == [e \in Editions |-> "daily"]
\* Lease tokens are random.
AnyTokens == Permutations(Tokens)
\* Bound: the ordinary job is not prepared while candidates of editions wait.
PreparedApart == prepared \subseteq EditionJobs \/ prepared \cap EditionJobs = {}
=============================================================================
