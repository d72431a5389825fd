--------------------------- MODULE MCDecisionRun ---------------------------
(* Instances of DecisionRun for TLC.                                         *)
EXTENDS DecisionRun

(* Routes of peer k that differ in what the rules around the MED rule        *)
(* compare, with AS-paths and costs as large as the minima allow.            *)
AroundMed(k) ==
    [peer : {k}, local_pref : {100}, length : {MaxUint8 - 1, MaxUint8}, origin : {2},
     med : {0, 1, MaxUint32}, last_as : {1, 2}, ebgp : {FALSE}, igp_cost : {0, MaxUint32},
     id : {1}, clusters : {0}, addr : {k}]

(* Routes of peer k that differ in what the MED rule compares.               *)
OnlyMed(k) ==
    [peer : {k}, local_pref : {0}, length : {1}, origin : {0}, med : {0, 1, 2},
     last_as : {1, 2}, ebgp : {TRUE}, igp_cost : {0}, id : {1}, clusters : {MaxUint8},
     addr : {k}]

(* Routes of one AS that differ in every attribute, two values each.         *)
Every(k) ==
    [peer : {k}, local_pref : {0, 100}, length : {1, 2}, origin : {0, 1}, med : {0, 1},
     last_as : {1}, ebgp : BOOLEAN, igp_cost : {1, 2}, id : {0, 1}, clusters : {0, 1},
     addr : {k}]

(* One route, two that differ in everything, three around the MED rule, four *)
(* in the MED rule.                                                          *)
MCLists ==
    {<<r>> : r \in OnlyMed(1)}
        \cup Every(1) \X Every(2)
        \cup AroundMed(1) \X AroundMed(2) \X AroundMed(3)
        \cup OnlyMed(1) \X OnlyMed(2) \X OnlyMed(3) \X OnlyMed(4)
=============================================================================
