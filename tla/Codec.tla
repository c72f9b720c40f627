------------------------------- MODULE Codec -------------------------------
(***************************************************************************)
(* The application wire format, on both sides: the packers and the parser   *)
(* of encoder_service.cpp, the pure helpers of common.cpp, the JavaScript    *)
(* decoder of the network console and its downlink helper, and the Python    *)
(* command tool.                                                            *)
(*                                                                         *)
(* A packet is a sequence of bytes.  A uint32_t is a pair of 16-bit halves   *)
(* <<high, low>>, a binary32 float such a pair of its bits.  Other floats    *)
(* are integers in the units named at Sample; one that is not finite is a    *)
(* number outside every range, as every comparison with it fails.  An        *)
(* optional value is a set of at most one element; a refusal is the empty    *)
(* set, or the record Error of the decoder.                                 *)
(***************************************************************************)
EXTENDS Integers, Sequences, TLC
LOCAL INSTANCE Functions

NotFinite == 2000000000
Error == [error |-> TRUE]

U16(v) == <<v \div 256, v % 256>>
U32(v) == U16(v[1]) \o U16(v[2])
readU16(b, i) == 256 * b[i] + b[i + 1]
readU32(b, i) == <<readU16(b, i), readU16(b, i + 2)>>
Bit(b, w) == (b \div w) % 2 = 1
Flag(c, w) == IF c THEN w ELSE 0
Opt(c, v) == IF c THEN {v} ELSE {}
(* The fields of base, and those of more over them. *)
Extend(more, base) ==
  [field \in DOMAIN more \cup DOMAIN base |-> IF field \in DOMAIN more THEN more[field] ELSE base[field]]
Between(x, low, high) == low <= x /\ x <= high
Abs(x) == IF x < 0 THEN -x ELSE x
(* lroundf of x / unit: to the nearest, halves away from zero. *)
Rounded(x, unit) == LET r == (Abs(x) + unit \div 2) \div unit IN IF x < 0 THEN -r ELSE r
Halves(n) == <<n \div 65536, n % 65536>>
SixDigits(v) == v[1] < 16 /\ Between(65536 * v[1] + v[2], 100000, 999999)

-----------------------------------------------------------------------------
(* Preferences: the fields of AppSettings as the numbers of their enums.     *)
settingsDefaults == [mode |-> 0, intervalMinutes |-> 6, temperature |-> 1, pressure |-> 1,
                     gas |-> 0, voc |-> 1, serialLevel |-> 3]
AppSettings == [mode : 0..1, intervalMinutes : 1..60, temperature : 0..1, pressure : 0..4,
                gas : 0..1, voc : 0..1, serialLevel : 0..5]
settingsValid(s) == s \in AppSettings
settingsPreferenceByte_Swapped(s) == s.temperature + 4 * s.gas + 2 * s.voc + 8 * s.pressure \* mutant
settingsPreferenceByte(s) == s.temperature + 2 * s.gas + 4 * s.voc + 8 * s.pressure

(* Sample: thousandths of a degree and of a percent, tenths of a pascal,      *)
(* ohms, thousandths of an IAQ point, tenths of a ppm CO2, and the bits of    *)
(* the VOC equivalent in ppm.                                                *)
UInt8 == 0..255
UInt16 == {n \in Nat : n < 65536}
UInt32 == UInt16 \X UInt16
SInt16 == {n \in Int : Between(n, -32768, 32767)}
SensorSnapshot == [temperatureC : Int, humidityPct : Int, pressurePa : Int, gasOhms : UInt32, gasValid : BOOLEAN,
                   iaq : Int, co2EquivalentPpm : Int, breathVocEquivalentPpm : UInt32, validMask : 0..7,
                   iaqAccuracy : 0..255, stabilized : BOOLEAN, runIn : BOOLEAN,
                   sampleUptimeSeconds : UInt32, temperatureHumidityCompensated : BOOLEAN]
Finite(v) == (v[1] \div 128) % 256 # 255
NotBelowZero(v) == v[1] < 32768 \/ v = <<32768, 0>>
sensorValidMask(s) ==
    Flag(Between(s.temperatureC, -40000, 85000), 1) + Flag(Between(s.humidityPct, 0, 100000), 2)
  + Flag(Between(s.pressurePa, 300000, 1100000), 4) + Flag(s.gasValid /\ s.gasOhms # <<0, 0>>, 8)
  + Flag(Bit(s.validMask, 1) /\ s.iaqAccuracy <= 3 /\ Between(s.iaq, 0, 500000), 16)
  + Flag(Bit(s.validMask, 2) /\ Between(s.co2EquivalentPpm, 0, 655350), 32)
  + Flag(/\ Bit(s.validMask, 4) /\ Finite(s.breathVocEquivalentPpm)
         /\ NotBelowZero(s.breathVocEquivalentPpm), 64)
sensorQualityByte(s) ==
  (s.iaqAccuracy % 4) + Flag(s.stabilized, 4) + Flag(s.runIn, 8)
  + 16 * (sensorValidMask(s) \div 16) + Flag(s.temperatureHumidityCompensated, 128)

-----------------------------------------------------------------------------
(* Uplinks of the node: environment (v1), report (v2), sensor packet (v3).    *)
Slot(c, bytes) == IF c THEN bytes ELSE [i \in DOMAIN bytes |-> 0]
Int16(v) == v % 65536
payloadEncodeEnvironment(s) ==
  LET t == Between(s.temperatureC, -40000, 85000)
      h == Between(s.humidityPct, 0, 100000)
      p == Between(s.pressurePa, 300000, 1100000)
      g == s.gasValid /\ s.gasOhms # <<0, 0>>
  IN  <<16 + Flag(t, 1) + Flag(h, 2) + Flag(p, 4) + Flag(g, 8)>>
      \o Slot(t, U16(Int16(Rounded(s.temperatureC, 10)))) \o Slot(h, U16(Int16(Rounded(s.humidityPct, 10))))
      \o Slot(p, U16(Int16(Rounded(s.pressurePa, 20)))) \o Slot(g, U32(s.gasOhms))
payloadEncodeReport(s) ==
  LET environment == payloadEncodeEnvironment(s)
      iaq == Bit(s.validMask, 1) /\ s.iaqAccuracy <= 3 /\ Between(s.iaq, 0, 500000)
      co2 == Bit(s.validMask, 2) /\ Between(s.co2EquivalentPpm, 0, 655350)
      voc == /\ Bit(s.validMask, 4) /\ Finite(s.breathVocEquivalentPpm)
             /\ NotBelowZero(s.breathVocEquivalentPpm)
  IN  <<32 + (environment[1] % 16)>> \o Tail(environment)
      \o Slot(iaq, U16(Int16(Rounded(s.iaq, 100)))) \o Slot(co2, U16(Int16(Rounded(s.co2EquivalentPpm, 10))))
      \o Slot(voc, U32(s.breathVocEquivalentPpm))
      \o <<Flag(iaq, 16) + Flag(co2, 32) + Flag(voc, 64) + Flag(s.iaqAccuracy <= 3, s.iaqAccuracy)
           + Flag(s.stabilized, 4) + Flag(s.runIn, 8) + Flag(s.temperatureHumidityCompensated, 128)>>
      \o U32(s.sampleUptimeSeconds)
encoderSensorPacket(s, settings) ==
  LET report == payloadEncodeReport(s)
  IN  IF ~settingsValid(settings) THEN <<>>
      ELSE <<48 + (report[1] % 16)>> \o Tail(report) \o <<settingsPreferenceByte(settings)>>

(* Replies and health reports.                                                *)
CommandType == [SetBatch |-> 1, GetConfiguration |-> 2, GetStatus |-> 3, ResetSettings |-> 4,
                RequestReset |-> 5, ConfirmReset |-> 6, RequestReboot |-> 7, ConfirmReboot |-> 8]
ReplyKind == [Result |-> 0, Configuration |-> 1, Status |-> 2, ResetChallenge |-> 3, RebootChallenge |-> 4]
CommandResult == [Accepted |-> 0, Invalid |-> 1, SaveFailed |-> 2, Busy |-> 3, Expired |-> 4,
                  WrongCode |-> 5, Conflict |-> 6]
NodeStatus == [uptimeSeconds : UInt32, ringCount : UInt16, reportIntervalSeconds : UInt16,
               validMask : 0..127, quality : 0..255, radioState : 0..6, managerState : 0..255,
               radioError : SInt16, sampleAgeSeconds : UInt16]
encoderControlPacket(r) ==
  <<161, r.kind>> \o U16(r.requestId) \o <<r.command, r.result>> \o U32(r.value)
  \o IF r.kind = ReplyKind.Configuration
     THEN LET s == r.settings
          IN  <<s.mode, s.intervalMinutes, s.temperature, s.pressure, s.gas, s.voc, s.serialLevel>>
     ELSE IF r.kind = ReplyKind.Status
     THEN LET s == r.status
          IN  U32(s.uptimeSeconds) \o U16(s.ringCount) \o U16(s.reportIntervalSeconds)
              \o <<s.validMask, s.quality, s.radioState, s.managerState>>
              \o U16(Int16(s.radioError)) \o U16(s.sampleAgeSeconds)
     ELSE <<>>

(* Downlinks to the node.  changed maps each key of a batch to its value.     *)
DecodedCommand(type, b, changed, code) ==
  [type |-> type, requestId |-> readU16(b, 3), changed |-> changed, confirmationCode |-> code]
encoderDecode(b) ==
  LET size   == Len(b)
      count  == b[5]
      key    == [i \in 1..count |-> b[4 + 2 * i]]
      value  == [k \in Range(key) |-> b[5 + 2 * (CHOOSE i \in 1..count : key[i] = k)]]
  IN  IF size < 4 \/ b[1] # 193 THEN {}
      ELSE CASE b[2] = CommandType.SetBatch ->
                  IF size >= 7 /\ count \in 1..7 /\ size = 5 + 2 * count
                  THEN IF Range(key) \subseteq 1..7 /\ IsInjective(key)
                       THEN {DecodedCommand(1, b, value, <<0, 0>>)} ELSE {}
                  ELSE {}
             [] b[2] \in {CommandType.ConfirmReset, CommandType.ConfirmReboot} ->
                  IF size = 8 THEN Opt(SixDigits(readU32(b, 5)), DecodedCommand(b[2], b, <<>>, readU32(b, 5)))
                  ELSE {}
             [] b[2] \in {2, 3, 4, 5, 7} -> Opt(size = 4, DecodedCommand(b[2], b, <<>>, <<0, 0>>))
             [] OTHER -> {}

(* proposedSettings of core_service.cpp: the batch over the active settings.  *)
proposedSettings_Stale(active, changed) == active                        \* mutant
proposedSettings(active, changed) ==
  LET New(k, old) == IF k \in DOMAIN changed THEN changed[k] ELSE old
  IN  [active EXCEPT !.mode = New(1, @), !.intervalMinutes = New(2, @), !.temperature = New(3, @),
                     !.pressure = New(4, @), !.gas = New(5, @), !.voc = New(6, @),
                     !.serialLevel = New(7, @)]

=============================================================================
