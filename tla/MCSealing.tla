----------------------------- MODULE MCSealing ------------------------------
(* An instance of Sealing for TLC.                                         *)
EXTENDS Sealing, TLC

CONSTANTS s1, s2

\* Sign-ins of a person not known yet beside an enrolment and a secret sealed before
\* the rotation, with the ids in several orders.
MCSealMixes ==
    {<<"resolve", "before", "resolve">>, <<"resolve", "enrol", "before">>,
     <<"before", "resolve", "enrol">>}

\* One administrator runs a pass at a time.
OnePass == Cardinality({s \in KeyServers : rewrap[s].stage # "none"}) <= 1

ServerSymmetry == Permutations({s1, s2})
=============================================================================
