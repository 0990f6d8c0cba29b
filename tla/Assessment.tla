----------------------------- MODULE Assessment -----------------------------
(***************************************************************************)
(* The incident assessment (assess/assess.ts, risk.ts, confidence.ts): what *)
(* one look at the four signal families says about risk, confidence and     *)
(* cause.  A signal is its status, not its value; points are counted in      *)
(* tenths, to which the code rounds each one.                               *)
(***************************************************************************)
EXTENDS Integers, FiniteSets

Families == {"physical", "storage", "network", "compute"}
SignalsOf(f) ==
    CASE f = "physical" -> {"temperature", "humidity"}
      [] f = "storage" -> {"readLatency", "throughput", "delay", "capacity"}
      [] f = "network" -> {"packetLoss", "linkLatency"}
      [] f = "compute" -> {"cpu", "throttle"}
Signals == UNION {SignalsOf(f) : f \in Families}

Status == 0..2  \* ok, warning, critical: statusRank

\* What assessIncident looks at.  age: whether a real reading is older than
\* SOFT_STALE_S; one that came over ssh, or is simulated, carries no age.
Reading == [status : [Signals -> Status], leak : BOOLEAN,
            source : {"real", "mock"}, age : {"none", "recent", "aged"}]

\* What the generators can make of a rack: the thermal couplings only see a
\* measured temperature, and pass their thresholds above its own (thermal.ts).
Coupled == {"readLatency", "throughput", "delay", "throttle"}
Possible(r) ==
    /\ r.source = "mock" => r.age = "none"
    /\ r.status["throttle"] # 2
    /\ (\E s \in Coupled : r.status[s] > 0) => r.source = "real" /\ r.status["temperature"] > 0

-----------------------------------------------------------------------------
(* risk.ts                                                                 *)

\* FAMILY_POINTS and LEAK_POINTS, in tenths, at full weight and at the rate of
\* every further signal of the family (WITHIN_FAMILY_DECAY, rounded to a tenth; the
\* floating-point product 45 * 0.35 falls just short of the 15.75 it stands for).
FullPoints(f) ==
    CASE f = "physical" -> <<220, 450>>
      [] f = "storage" -> <<120, 250>>
      [] f = "network" -> <<100, 200>>
      [] f = "compute" -> <<80, 150>>
LeakPoints == 500
Decayed(p) == IF p = 450 THEN 157 ELSE (35 * p + 50) \div 100

Count(r, f, s) == Cardinality({x \in SignalsOf(f) : r.status[x] = s})

\* (mutant) the mildest signal of a family counts in full.
FamilyPointsMildest(r, f) ==
    LET warnings == Count(r, f, 1)
        criticals == Count(r, f, 2)
        all == warnings * Decayed(FullPoints(f)[1]) + criticals * Decayed(FullPoints(f)[2])
        first(p) == p - Decayed(p)
    IN  IF warnings > 0 THEN all + first(FullPoints(f)[1])
        ELSE IF criticals > 0 THEN all + first(FullPoints(f)[2])
        ELSE IF f = "physical" /\ r.leak THEN LeakPoints
        ELSE 0

\* Worst first: one signal counts in full, the others of the family do not.
FamilyPoints(r, f) ==
    LET warnings == Count(r, f, 1)
        criticals == Count(r, f, 2)
        all == warnings * Decayed(FullPoints(f)[1]) + criticals * Decayed(FullPoints(f)[2])
        first(p) == p - Decayed(p)
    IN  IF f = "physical" /\ r.leak THEN LeakPoints + all
        ELSE IF criticals > 0 THEN all + first(FullPoints(f)[2])
        ELSE IF warnings > 0 THEN all + first(FullPoints(f)[1])
        ELSE 0

Involved(r) ==
    {f \in Families : (\E s \in SignalsOf(f) : r.status[s] > 0) \/ (f = "physical" /\ r.leak)}

\* CORRELATION_BONUS, by the number of families.
Bonus(n) == <<0, 0, 100, 180, 240>>[n + 1]

\* Math.min(100, Math.round(total + bonus)).
Score(r) ==
    LET total == FamilyPoints(r, "physical") + FamilyPoints(r, "storage")
                 + FamilyPoints(r, "network") + FamilyPoints(r, "compute")
                 + Bonus(Cardinality(Involved(r)))
        rounded == (total + 5) \div 10
    IN  IF rounded > 100 THEN 100 ELSE rounded

\* LEVEL_ORDER: low, medium, high, critical.
Levels == 0..3
LevelFor(score) ==
    CASE score <= 30 -> 0
      [] score > 30 /\ score <= 60 -> 1
      [] score > 60 /\ score <= 80 -> 2
      [] score > 80 -> 3

\* A leak puts a floor under the level.
Level(r) == IF r.leak THEN 3 ELSE LevelFor(Score(r))
-----------------------------------------------------------------------------
(* confidence.ts: none, low, medium, high.                                  *)

Downgrade(c) == IF c = 0 THEN 0 ELSE c - 1

\* (mutant) a critical signal counts as corroboration.
ConfidenceBySeverity(r) ==
    IF r.source = "mock" THEN 0
    ELSE IF r.age = "aged" THEN 1
    ELSE IF \E s \in Signals : r.status[s] = 2 THEN 3 ELSE 2

\* Nothing wrong anywhere is said with high confidence however old the reading.
Confidence(r) ==
    LET families == Involved(r)
        byAge == IF r.age = "aged" THEN 1 ELSE 2
    IN  CASE r.source = "mock" -> 0
          [] r.source = "real" /\ families = {} -> 3
          [] r.source = "real" /\ families = {"physical"} -> Downgrade(byAge)
          [] r.source = "real" /\ Cardinality(families) = 1 /\ families # {"physical"} -> byAge
          [] r.source = "real" /\ Cardinality(families) > 1 -> IF byAge = 1 THEN 1 ELSE 3
-----------------------------------------------------------------------------
(* explain()                                                                *)

Causes == {"leak", "cooling", "networkPath", "workload", "earlyPhysical", "noIncident"}

Cause(r) ==
    LET has(f) == f \in Involved(r)
    IN  IF r.leak THEN "leak"
        ELSE IF has("physical") /\ has("storage") /\ ~has("network") THEN "cooling"
        ELSE IF has("network") /\ ~has("physical") THEN "networkPath"
        ELSE IF has("compute") /\ ~has("physical") /\ ~has("storage") THEN "workload"
        ELSE IF has("physical") THEN "earlyPhysical"
        ELSE "noIncident"
=============================================================================
