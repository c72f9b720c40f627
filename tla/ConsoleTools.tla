---------------------------- MODULE ConsoleTools ----------------------------
(***************************************************************************)
(* The operator's side of the wire: Decoder and encodeDownlink, which run in *)
(* the network's console (decoders/environment_v1.js), and the command line   *)
(* tool (tools/downlink.py).  A measurement that is null is the empty set.    *)
(* Names are strings; a setting's value is one too, or a number of minutes.   *)
(***************************************************************************)
EXTENDS Codec
LOCAL INSTANCE Functions
LOCAL INSTANCE SequencesExt

-----------------------------------------------------------------------------
(* Decoder.  temperature_c and humidity_pct in hundredths, iaq in tenths.     *)
decodeBinary32(b, i) ==
  LET hi == readU16(b, i)
      exponent == (hi \div 128) % 256
  IN  Opt(exponent # 255, [sign |-> IF hi >= 32768 THEN -1 ELSE 1, exponent |-> exponent,
                           fraction |-> <<hi % 128, readU16(b, i + 2)>>])
Negative(x) == x.sign = -1 /\ (x.exponent # 0 \/ x.fraction # <<0, 0>>)

pressureUnits == <<"mbar", "inHg", "Pa", "kPa", "mmHg">>
(* Hundredths of a pascal in each unit, to a whole number.                    *)
divisors == <<10000, 338639, 100, 100000, 13332>>

Environment(b) ==
  LET flags       == b[1] % 16
      raw         == readU16(b, 2)
      temperature == IF raw >= 32768 THEN raw - 65536 ELSE raw
  IN  [format_version |-> b[1] \div 16, valid_mask |-> flags,
       temperature_c |-> Opt(Bit(flags, 1), temperature),
       humidity_pct  |-> Opt(Bit(flags, 2), readU16(b, 4)),
       pressure_pa   |-> Opt(Bit(flags, 4), 2 * readU16(b, 6)),
       gas_ohms      |-> Opt(Bit(flags, 8), readU32(b, 8))]
AirQuality(b) ==
  LET status == b[20]
  IN  [iaq |-> Opt(Bit(status, 16), readU16(b, 12)),
       co2_equivalent_ppm |-> Opt(Bit(status, 32), readU16(b, 14)),
       breath_voc_equivalent_ppm |-> IF Bit(status, 64) THEN decodeBinary32(b, 16) ELSE {},
       iaq_accuracy |-> Opt(Bit(status, 16), status % 4),
       sensor_stabilized |-> Bit(status, 4), sensor_run_in_complete |-> Bit(status, 8),
       air_quality_valid_mask |-> (status \div 16) % 8,
       temperature_humidity_compensated |-> Bit(status, 128),
       sample_uptime_s |-> readU32(b, 21)]
(* temperature in thousandths of its unit, pressure in hundredths.            *)
Presentation(d, preferences) ==
  LET pressure == (preferences \div 8) % 8
      F == Bit(preferences, 1)
  IN  [packet_type |-> "sensor",
       temperature_unit |-> IF F THEN "F" ELSE "C",
       temperature |-> {IF F THEN 18 * t + 32000 ELSE 10 * t : t \in d.temperature_c},
       pressure_unit |-> pressureUnits[pressure + 1],
       pressure |-> {(10000 * p) \div divisors[pressure + 1] : p \in d.pressure_pa},
       gas_resistance_unit |-> IF Bit(preferences, 2) THEN "kohm" ELSE "ohm",
       gas_resistance |-> {<<g, IF Bit(preferences, 2) THEN 1000 ELSE 1>> : g \in d.gas_ohms},
       breath_voc_equivalent_unit |-> IF Bit(preferences, 4) THEN "ppb" ELSE "ppm"]

configurationNames ==
  [report_mode |-> <<"dynamic", "fixed">>, temperature_unit |-> <<"C", "F">>,
   pressure_unit |-> pressureUnits, gas_unit |-> <<"ohm", "kohm">>, voc_unit |-> <<"ppm", "ppb">>,
   serial_level |-> <<"OFF", "ERROR", "WARN", "INFO", "DEBUG", "TRACE">>]
Configuration(b) ==
  LET Name(key, i) == configurationNames[key][b[i] + 1]
  IN  [report_mode |-> Name("report_mode", 11), interval_minutes |-> b[12],
       temperature_unit |-> Name("temperature_unit", 13), pressure_unit |-> Name("pressure_unit", 14),
       gas_unit |-> Name("gas_unit", 15), voc_unit |-> Name("voc_unit", 16),
       serial_level |-> Name("serial_level", 17)]
Status(b) ==
  LET radioError == readU16(b, 23)
  IN  [uptime_s |-> readU32(b, 11), ring_count |-> readU16(b, 15), report_interval_s |-> readU16(b, 17),
       valid_mask |-> b[19], quality |-> b[20] % 16, radio_state |-> b[21],
       manager_state |-> b[22] % 64, reset_confirmation_pending |-> Bit(b[22], 128),
       reboot_confirmation_pending |-> Bit(b[22], 64),
       radio_error |-> IF radioError >= 32768 THEN radioError - 65536 ELSE radioError,
       sample_age_s |-> Opt(readU16(b, 25) # 65535, readU16(b, 25))]
decodeControl(b) ==
  LET kind  == b[2]
      value == readU32(b, 7)
      reply == [packet_type |-> IF kind = 2 /\ b[5] = 0 THEN "health" ELSE "control", reply_type |-> kind,
                request_id |-> readU16(b, 3), command |-> b[5], result |-> b[6], value |-> value]
  IN  IF Len(b) < 10 \/ kind > 4 \/ b[6] > 6 THEN Error
      ELSE IF Len(b) # (CASE kind = 1 -> 17 [] kind = 2 -> 26 [] OTHER -> 10) THEN Error
      ELSE CASE kind = 0 -> reply
             [] kind = 1 -> IF /\ b[11] <= 1 /\ b[12] \in 1..60 /\ b[13] <= 1 /\ b[14] <= 4
                               /\ b[15] <= 1 /\ b[16] <= 1 /\ b[17] <= 5
                            THEN Extend([settings |-> Configuration(b)], reply) ELSE Error
             [] kind = 2 -> Extend([status |-> Status(b)], reply)
             [] OTHER    -> IF b[5] = (IF kind = 3 THEN 5 ELSE 7) /\ SixDigits(value) THEN reply ELSE Error

Decoder(b, port) ==
  LET version == b[1] \div 16
      status  == b[20]
      decoded == Environment(b)
      v2      == Extend(AirQuality(b), decoded)
      iaqBad  == Bit(status, 16) /\ readU16(b, 12) > 5000
      vocBad  == Bit(status, 64) /\ \A x \in decodeBinary32(b, 16) : Negative(x)
  IN  IF port \in {0, 1} /\ b = <<>> THEN [mac_only |-> TRUE]
      ELSE IF port # 1 THEN Error
      ELSE IF b[1] = 161 THEN decodeControl(b)
      ELSE IF <<version, Len(b)>> \notin {<<1, 11>>, <<2, 24>>, <<3, 25>>} THEN Error
      ELSE IF version = 1 THEN decoded
      ELSE IF iaqBad \/ vocBad THEN Error
      ELSE IF version = 2 THEN v2
      ELSE IF b[25] >= 64 \/ (b[25] \div 8) % 8 > 4 THEN Error
      ELSE Extend(Presentation(decoded, b[25]), v2)

-----------------------------------------------------------------------------
(* What a request of the operator becomes: [command, id, changes, code].      *)
(* changes is a sequence of <<name, value>>, code at most one number.         *)
COMMANDS == <<"set", "configuration", "status", "defaults", "reset-request", "reset-confirm",
              "reboot-request", "reboot-confirm">>
SETTINGS ==
  [report_mode |-> <<1, [dynamic |-> 0, fixed |-> 1]>>, interval_minutes |-> <<2, [n \in 1..60 |-> n]>>,
   temperature_unit |-> <<3, [C |-> 0, F |-> 1]>>,
   pressure_unit |-> <<4, [hPa |-> 0, mbar |-> 0, mb |-> 0, inHg |-> 1, Pa |-> 2, kPa |-> 3, mmHg |-> 4]>>,
   gas_unit |-> <<5, [ohm |-> 0, kohm |-> 1]>>, voc_unit |-> <<6, [ppm |-> 0, ppb |-> 1]>>,
   serial_level |-> <<7, [OFF |-> 0, ERROR |-> 1, WARN |-> 2, INFO |-> 3, DEBUG |-> 4, TRACE |-> 5]>>]
Confirms(r) == r.command \in {"reset-confirm", "reboot-confirm"}
Header(r) == <<193, CHOOSE i \in DOMAIN COMMANDS : COMMANDS[i] = r.command>> \o U16(r.id)
Addressed(r) == r.command \in Range(COMMANDS) /\ r.id \in UInt16
InRange(code) == \A n \in code : Between(n, 100000, 999999)
Code(r) == U32(Halves(CHOOSE n \in r.code : TRUE))

encode(r) ==                                                             \* downlink.py
  LET Known(c) == c[1] \in DOMAIN SETTINGS /\ c[2] \in DOMAIN SETTINGS[c[1]][2]
      Pair(c)  == <<SETTINGS[c[1]][1], SETTINGS[c[1]][2][c[2]]>>
      unique   == IsInjective([i \in DOMAIN r.changes |-> r.changes[i][1]])
  IN  IF ~Addressed(r) THEN {}
      ELSE IF r.command = "set"
      THEN IF r.changes # <<>> /\ r.code = {} /\ (\A c \in Range(r.changes) : Known(c)) /\ unique
           THEN {Header(r) \o <<Len(r.changes)>>
                 \o FlattenSeq([i \in DOMAIN r.changes |-> Pair(r.changes[i])])} ELSE {}
      ELSE IF r.changes # <<>> THEN {}
      ELSE IF Confirms(r) THEN Opt(r.code # {} /\ InRange(r.code), Header(r) \o Code(r))
      ELSE Opt(r.code = {}, Header(r))

jsKeys == <<"report_mode", "interval_minutes", "temperature_unit", "pressure_unit", "gas_unit",
            "voc_unit", "serial_level">>
jsChoices == <<[dynamic |-> 0, fixed |-> 1], [n \in 1..60 |-> n], [C |-> 0, F |-> 1],
               [hPa |-> 0, mbar |-> 0, mb |-> 0, inHg |-> 1, Pa |-> 2, kPa |-> 3, mmHg |-> 4],
               [ohm |-> 0, kohm |-> 1], [ppm |-> 0, ppb |-> 1],
               [OFF |-> 0, ERROR |-> 1, WARN |-> 2, INFO |-> 3, DEBUG |-> 4, TRACE |-> 5]>>
(* d.settings is an object: its names are distinct. *)
encodeDownlink(r) ==                                                     \* environment_v1.js
  LET Index(c) == CHOOSE i \in DOMAIN jsKeys : jsKeys[i] = c[1]
      Known(c) == c[1] \in Range(jsKeys) /\ c[2] \in DOMAIN jsChoices[Index(c)]
      Pair(c)  == <<Index(c), jsChoices[Index(c)][c[2]]>>
  IN  IF ~Addressed(r) THEN {}
      ELSE IF r.command = "set"
      THEN IF r.changes # <<>> /\ \A c \in Range(r.changes) : Known(c)
           THEN {Header(r) \o <<Len(r.changes)>>
                 \o FlattenSeq([i \in DOMAIN r.changes |-> Pair(r.changes[i])])} ELSE {}
      ELSE IF Confirms(r) THEN Opt(r.code # {} /\ InRange(r.code), Header(r) \o Code(r))
      ELSE {Header(r)}
=============================================================================
