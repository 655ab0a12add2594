-------------------------------- MODULE Sensors --------------------------------
(***************************************************************************)
(* What Manager::getSensorValues of openpower-occ-control makes of the     *)
(* hwmon files of one OCC: the temperature of a FRU, which several files   *)
(* may report (readTempSensors).  Power readings take the same way from    *)
(* one file each and are left out.                                         *)
(*                                                                         *)
(* The state of a sensor is what D-Bus shows of it, together with the      *)
(* readings that the temperature shown comes from.                         *)
(***************************************************************************)
EXTENDS Integers, Sequences

\* What the files of the FRU may read, in the order of the directory
CONSTANT Directories

\* The quiet NaN of a failed sensor; the OCC reports no negative temperatures.
NaN == -1
Unknown == -2       \* no object on D-Bus yet

Readings == Nat \cup {NaN}

ASSUME DirectoriesAssumption == Directories \subseteq Seq(Readings) \ {<<>>}

Sensor == [temp : Readings \cup {Unknown}, functional : BOOLEAN,
           seen : SUBSET Readings]

NoSensor == [temp |-> Unknown, functional |-> FALSE, seen |-> {}]

\* A file for a FRU that has a value already: the higher one is taken, but a
\* failed sensor together with one that has no reading (0) makes the FRU fail,
\* which forces the fans up.
Fuse_HigherOnly(existing, temp) ==
    IF existing = NaN \/ temp > existing THEN temp ELSE existing

Fuse(existing, temp) ==
    IF {existing, temp} = {NaN, 0} THEN NaN
    ELSE IF existing = NaN \/ temp > existing THEN temp ELSE existing

\* A file whose fault flag is set reads NaN, one that is not available yet
\* (EAGAIN) 0; one that cannot be read is skipped, and not in the directory here.
Fused(readings) ==
    LET value[i \in DOMAIN readings] ==
            IF i = 1 THEN readings[1] ELSE Fuse(value[i - 1], readings[i])
    IN value[Len(readings)]

ReadingsOf(readings) == {readings[i] : i \in DOMAIN readings}

FruValues == {[temp |-> Fused(d), seen |-> ReadingsOf(d)] : d \in Directories}

\* readTempSensors: no file can be read, or the FRU has a new value.
ReadTempSensors(s) ==
    {s} \cup {[temp |-> fru.temp, functional |-> fru.temp # NaN,
               seen |-> fru.seen] : fru \in FruValues}

\* setSensorValueToNaN: what the OCC has had a value for is NaN, and functional.
SetSensorValueToNaN(s) ==
    IF s.temp = Unknown THEN s
    ELSE [temp |-> NaN, functional |-> TRUE, seen |-> {}]

NoValue(s) == s.temp \in {NaN, Unknown}

\* The highest of the readings; if there is none above 0, a failed sensor
\* counts more than one without a reading.
IsWorst(value, readings) ==
    \/ value > 0 /\ value \in readings /\ \A t \in readings : t <= value
    \/ value = NaN /\ NaN \in readings /\ \A t \in readings : t <= 0
    \/ value = 0 /\ readings = {0}
================================================================================
