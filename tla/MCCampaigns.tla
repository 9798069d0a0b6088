----------------------------- MODULE MCCampaigns -----------------------------
(* Campaigns for TLC: accounts, texts and requests are interchangeable.      *)
EXTENDS Campaigns, FiniteSets, TLC

Symmetry == Permutations(Account) \cup Permutations(Text) \cup Permutations(Request)

(* Every day of a calendar is planned alike: it starts with the first slot   *)
(* and no slot is used twice more than another, for whatever numbers of      *)
(* days, posts a day and slots are asked for.  (drafts.go:431)               *)
ASSUME DaysAlike ==
  \A d \in {-1, 0, 1, 2, 32}, k \in -1..11, n \in 0..3 :
    LET times == Planned(d, k, n)
        On(day, s) == {i \in DOMAIN times : times[i].day = day /\ times[i].slot = s}
        slots == 1..(IF n = 0 THEN 1 ELSE n)
    IN  \A day \in 1..Days(d), s, t \in slots :
          /\ s <= t => Cardinality(On(day, s)) - Cardinality(On(day, t)) \in {0, 1}
          /\ On(day, 1) # {}
=============================================================================
