---------------------------- MODULE MCFunctions ----------------------------
(* The wire between operator and node, and the interval policy.  They share   *)
(* nothing: a behaviour explores one of them, as side says.                   *)
EXTENDS Console, IntervalPolicy

VARIABLE side

(* A reading, and what is odd about others: each range at both ends, rounding  *)
(* at a half, infinities, negative zero, missing outputs.                    *)
OneReading == [temperatureC |-> 21345, humidityPct |-> 45678, pressurePa |-> 1013255, gasOhms |-> <<1, 2345>>,
            gasValid |-> TRUE, iaq |-> 50049, co2EquivalentPpm |-> 6004, breathVocEquivalentPpm |-> <<16256, 7>>,
            validMask |-> 7, iaqAccuracy |-> 3, stabilized |-> TRUE, runIn |-> FALSE,
            temperatureHumidityCompensated |-> TRUE, sampleUptimeSeconds |-> <<65535, 65535>>]
SampleValues ==
  {[OneReading EXCEPT !.temperatureC = t] : t \in {-40000, -40001, -4, -5, 5, 85000, 85001, NotFinite}}
  \cup {[OneReading EXCEPT !.humidityPct = h] : h \in {-1, 0, 100000, 100001, NotFinite}}
  \cup {[OneReading EXCEPT !.pressurePa = p] : p \in {299999, 300000, 1013250, 1100000, 1100001}}
  \cup {[OneReading EXCEPT !.gasOhms = g] : g \in {<<0, 0>>, <<0, 1>>, <<65535, 65535>>}}
  \cup {[OneReading EXCEPT !.gasValid = FALSE, !.sampleUptimeSeconds = <<0, 3>>]}
  \cup {[OneReading EXCEPT !.iaq = q] : q \in {-1, 0, 49, 50, 500000, 500001}}
  \cup {[OneReading EXCEPT !.co2EquivalentPpm = c] : c \in {0, 655350, 655351, NotFinite}}
  \cup {[OneReading EXCEPT !.breathVocEquivalentPpm = v] :
          v \in {<<0, 0>>, <<0, 1>>, <<32768, 0>>, <<32768, 1>>, <<32640, 0>>, <<32704, 1>>, <<49024, 0>>}}
  \cup {[OneReading EXCEPT !.validMask = m, !.iaqAccuracy = a, !.stabilized = ~@] : m \in {0, 1, 6, 7}, a \in {0, 4}}
StatusValues ==
  LET s == [uptimeSeconds |-> <<65535, 65535>>, ringCount |-> 1200, reportIntervalSeconds |-> 3600,
            validMask |-> 127, quality |-> 255, radioState |-> 6, managerState |-> 65,
            radioError |-> -1101, sampleAgeSeconds |-> 65535]
  IN  {s, [s EXCEPT !.radioError = 0, !.managerState = 129, !.sampleAgeSeconds = 0, !.validMask = 0]}
RecordValues ==
  {[tag |-> "none", fields |-> <<>>, intact |-> FALSE]}
  \cup {[tag |-> "v2", fields |-> [i \in 5..12 |-> IF i = 12 THEN m ELSE IF i = 10 THEN p ELSE 0], intact |-> TRUE] :
          m \in {0, 60}, p \in {2, 3}}
Set(changes) == [command |-> "set", id |-> 258, changes |-> changes, code |-> {}]
Values == [report_mode |-> {"off", "fixed"}, interval_minutes |-> {0, 60, 61},
           temperature_unit |-> {"C", "F", "K"}, pressure_unit |-> {"hPa", "mbar", "mb", "inHg", "Pa", "kPa", "mmHg"},
           gas_unit |-> {"ohm", "kohm"}, voc_unit |-> {"ppm", "ppb"}, serial_level |-> {"LOUD"}]
RequestValues ==
  UNION {{Set(<<<<name, v>>>>) : v \in Values[name]} : name \in DOMAIN Values}
  \cup {Set(<<>>), Set(<<<<"volume", "high">>>>), Set(<<<<"gas_unit", "ohm">>, <<"gas_unit", "kohm">>>>),
        Set(<<<<"voc_unit", "ppm">>, <<"interval_minutes", 60>>, <<"pressure_unit", "Pa">>>>),
        Set(<<<<"serial_level", "TRACE">>, <<"gas_unit", "kohm">>, <<"temperature_unit", "C">>,
              <<"report_mode", "fixed">>, <<"interval_minutes", 1>>, <<"voc_unit", "ppm">>, <<"pressure_unit", "mmHg">>>>)}
  \cup {[command |-> c, id |-> i, changes |-> <<>>, code |-> {}] :
          c \in {"configuration", "status", "defaults", "reset-request", "reboot-request", "reset-confirm", "erase"},
          i \in {0, 65535, 65536}}
  \cup {[command |-> c, id |-> 1, changes |-> <<>>, code |-> {n}] :
          c \in {"reset-confirm", "reboot-confirm", "status"}, n \in {99999, 100000, 999999, 1000000}}

FloorValues == <<128, 1>>
StudyValues ==
  {[kinds |-> {"lost", "spike", "shift"}, events |-> 2, horizon |-> 32, rate |-> r, prompt |-> TRUE] : r \in {0, 16}}
  \cup {[kinds |-> {"lost", "partial"}, events |-> 8, horizon |-> 8, rate |-> 0, prompt |-> FALSE]}

Init == /\ ConsoleInit /\ PolicyInit /\ side \in {"console", "policy"}
        /\ side = "console" => study.horizon = 8
        /\ side = "policy" => record.tag = "none"
Next == \/ side = "console" /\ ConsoleNext /\ UNCHANGED <<side, policy>>
        \/ side = "policy" /\ PolicyNext /\ UNCHANGED <<side, console>>
Spec == Init /\ [][Next]_<<side, console, policy>>
=============================================================================
