------------------------------ MODULE MCAiUsage ------------------------------
(* Constants for checking AiUsage. *)
EXTENDS AiUsage

TwoCalls == {"a", "b"}
SiteAndTeam == {"site", "team"}
\* the team's work also falls under the site's policy
AllUnderSite == [c \in TwoCalls |-> IF c = "a" THEN {"site"} ELSE SiteAndTeam]
SmallAndLarge == [c \in TwoCalls |-> IF c = "a" THEN 1 ELSE 2]
\* the site's daily limit is loosened over a longer period, or lifted; the team's stays
TightAndLoose == [p \in SiteAndTeam |->
  {[on |-> TRUE, requests |-> 1, tokens |-> 2, cadence |-> 1]} \cup
  IF p = "team" THEN {}
  ELSE {[on |-> TRUE, requests |-> 2, tokens |-> 3, cadence |-> 2],
        [on |-> FALSE, requests |-> 1, tokens |-> 2, cadence |-> 1]}]
Zero == {0}
\* the first days of two periods so far apart that retention has ended for the first
SomeDays == {0, 4}
=============================================================================
