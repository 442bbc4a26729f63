------------------------------ MODULE MCRecords ------------------------------
(* Four parts of the service and its dashboard that share no state: the    *)
(* sessions policy with one settings request at a time, the tiers of       *)
(* metrics, the drain mode with its log, and the import and opening of the *)
(* history.  A behaviour is of one of them, which "part" names; the others *)
(* stay as they started.                                                   *)
EXTENDS MCSessionPolicyEdit, MetricsTiers, DrainWatch, AuditImport

VARIABLE part

policyVars == <<vars, setting>>
recordVars == <<policyVars, tierVars, drainVars, auditVars, part>>

RecordsInit ==
    /\ part \in {"policy", "tiers", "drain", "import"}
    /\ SerialInit /\ (part # "policy" => setting = "on")
    /\ TiersInit
    /\ DrainInit /\ (part # "drain" => audit = <<>>)
    /\ AuditInit /\ (part # "import" => jsonl = "absent")

(* The bounds on clocks end the other parts; the policy never stops.       *)
AtTheBounds == part # "policy" /\ UNCHANGED recordVars

RecordsNext ==
    \/ /\ part = "policy" /\ SerialNext
       /\ UNCHANGED <<tierVars, drainVars, auditVars, part>>
    \/ /\ part = "tiers" /\ TiersNext
       /\ UNCHANGED <<policyVars, drainVars, auditVars, part>>
    \/ /\ part = "drain" /\ DrainNext
       /\ UNCHANGED <<policyVars, tierVars, auditVars, part>>
    \/ /\ part = "import" /\ AuditNext
       /\ UNCHANGED <<policyVars, tierVars, drainVars, part>>
    \/ AtTheBounds

RecordsSpec == RecordsInit /\ [][RecordsNext]_recordVars
=============================================================================
