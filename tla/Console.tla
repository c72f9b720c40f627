------------------------------ MODULE Console ------------------------------
(***************************************************************************)
(* An operator and a node: requests go down through either tool, or arrive  *)
(* damaged; replies, sensor packets and health reports come up through       *)
(* Decoder.  The node keeps its settings in the EEPROM record and loads them  *)
(* when it starts.  Delivery, the reply queue and the duplicate cache are     *)
(* those of Manager; here one request is answered at once.                   *)
(***************************************************************************)
EXTENDS ConsoleTools
LOCAL INSTANCE Functions

CONSTANTS Requests,   \* what the operator asks: [command, id, changes, code]
          Samples,    \* readings of the sensor
          Statuses,   \* NodeStatus values
          Records     \* settings records found at the first start

(* A version 2 record is nothing but bytes. *)
RecordOk(r) == r.tag = "v2" => r.fields \in [5..12 -> UInt8]
ASSUME ConsoleAssumption ==
  Samples \subseteq SensorSnapshot /\ Statuses \subseteq NodeStatus /\ \A r \in Records : RecordOk(r)

VARIABLES active,     \* the node's AppSettings
          record,     \* the settings record in EEPROM: [tag, fields, intact]
          request,    \* the request that was answered last, if it came from a tool
          sent,       \* what the last uplink was packed from, if anything
          uplink      \* its bytes
console == <<active, record, request, sent, uplink>>

(* storageLoadSettings: the record, the older v2 record, or neither.  The v2   *)
(* fields are its bytes 5 to 12.                                             *)
V2Valid(d) == /\ \A i \in 5..9 : d[i] <= 1
              /\ d[10] <= 2 /\ d[11] <= 2 /\ d[12] \in 1..60
LoadSettings(r) ==
  IF r.tag = "v3" /\ r.intact THEN Opt(settingsValid(r.fields), r.fields)
  ELSE IF r.tag = "v2" /\ r.intact /\ V2Valid(r.fields)
  THEN {[settingsDefaults EXCEPT !.temperature = r.fields[9], !.pressure = r.fields[10],
                                 !.intervalMinutes = r.fields[12]]}
  ELSE {}
Started(r) == IF LoadSettings(r) = {} THEN settingsDefaults ELSE CHOOSE s \in LoadSettings(r) : TRUE
SaveSettings(s) == [tag |-> "v3", fields |-> s, intact |-> TRUE]

ConsoleInit ==
  /\ record \in Records /\ active = Started(record)
  /\ request = {} /\ sent = {} /\ uplink = <<>>

(* One exchange at a time: the next one starts when the operator has read it. *)
Quiet  == request = {} /\ sent = {}
Silent == sent' = {} /\ uplink' = <<>>
Listen == ~Quiet /\ request' = {} /\ Silent /\ UNCHANGED <<active, record>>
Sends(item, bytes) == sent' = {item} /\ uplink' = bytes

-----------------------------------------------------------------------------
(* receiveCommand with the parts of a reply that are packed.                  *)
Replies(r) == Sends([type |-> "reply", reply |-> r], encoderControlPacket(r))
Result(id, command, result) ==
  [kind |-> ReplyKind.Result, requestId |-> id, command |-> command, result |-> result, value |-> <<0, 0>>]
Answers(c, kind, more) ==
  Replies(Extend(more, [Result(c.requestId, c.type, CommandResult.Accepted) EXCEPT !.kind = kind]))
Refuses(c, result) == Replies(Result(c.requestId, c.type, result)) /\ UNCHANGED <<active, record>>

acceptSettings(c, proposed) ==
  IF ~settingsValid(proposed) THEN Refuses(c, CommandResult.Invalid)
  ELSE \/ /\ Replies(Result(c.requestId, c.type, CommandResult.SaveFailed))
          /\ record' = [tag |-> "none", fields |-> <<>>, intact |-> FALSE]
          /\ active' = active
       \/ /\ record' = SaveSettings(proposed) /\ active' = proposed
          /\ Answers(c, ReplyKind.Configuration, [settings |-> proposed])
lwGenerateResetCode(entropy) == 100000 + (entropy % 900000)
Challenges(c, kind) ==
  \/ Refuses(c, CommandResult.Busy)
  \/ /\ \E entropy \in {0, 899999, 2000000000} : Answers(c, kind, [value |-> Halves(lwGenerateResetCode(entropy))])
     /\ UNCHANGED <<active, record>>
Command(c) ==
  CASE c.type = CommandType.SetBatch -> acceptSettings(c, proposedSettings(active, c.changed))
    [] c.type = CommandType.ResetSettings -> acceptSettings(c, settingsDefaults)
    [] c.type = CommandType.GetConfiguration ->
         Answers(c, ReplyKind.Configuration, [settings |-> active]) /\ UNCHANGED <<active, record>>
    [] c.type = CommandType.GetStatus ->
         \E s \in Statuses : Answers(c, ReplyKind.Status, [status |-> s]) /\ UNCHANGED <<active, record>>
    [] c.type = CommandType.RequestReset -> Challenges(c, ReplyKind.ResetChallenge)
    [] c.type = CommandType.RequestReboot -> Challenges(c, ReplyKind.RebootChallenge)
    [] OTHER -> \/ \E result \in {CommandResult.Expired, CommandResult.WrongCode, CommandResult.Conflict} :
                     Refuses(c, result)
                \/ Silent /\ UNCHANGED <<active, record>>           \* confirmed
Received(b) ==
  \/ /\ encoderDecode(b) = {}
     /\ IF Len(b) >= 4 /\ b[1] = 193 THEN Replies(Result(readU16(b, 3), b[2], CommandResult.Invalid)) ELSE Silent
     /\ UNCHANGED <<active, record>>
  \/ \E c \in encoderDecode(b) : Command(c)

Tool(t, r) == IF t = "python" THEN encode(r) ELSE encodeDownlink(r)
Named(r) == IsInjective([i \in DOMAIN r.changes |-> r.changes[i][1]])
Request == /\ Quiet
           /\ \E t \in {"python", "js"}, r \in Requests :
             /\ t = "js" => Named(r)
             /\ \E b \in Tool(t, r) : Received(b)
             /\ request' = {r}

(* Bytes that no tool made: one byte of a request altered, lost or added.     *)
Damaged(b) == {[b EXCEPT ![i] = v] : i \in DOMAIN b, v \in {0, 255}}
              \cup {SubSeq(b, 1, n) : n \in {0, Len(b) - 1}} \cup {Append(b, 1)}
Garbled == /\ Quiet
           /\ \E r \in Requests : \E b \in encode(r) : \E d \in Damaged(b) : Received(d)
           /\ request' = {}

-----------------------------------------------------------------------------
Report == \E s \in Samples :
            Sends([type |-> "sensor", sample |-> s, version |-> 3], encoderSensorPacket(s, active))
Legacy == \E s \in Samples :
            \/ Sends([type |-> "sensor", sample |-> s, version |-> 1], payloadEncodeEnvironment(s))
            \/ Sends([type |-> "sensor", sample |-> s, version |-> 2], payloadEncodeReport(s))
Health == \E s \in Statuses :
            Replies(Extend([kind |-> ReplyKind.Status, status |-> s], Result(0, 0, CommandResult.Accepted)))
Uplink == Quiet /\ (Report \/ Legacy \/ Health) /\ request' = {} /\ UNCHANGED <<active, record>>

Reboot == /\ Quiet /\ active' = Started(record) /\ request' = {} /\ Silent /\ record' = record

ConsoleNext == Request \/ Garbled \/ Uplink \/ Listen \/ Reboot
ConsoleSpec == ConsoleInit /\ [][ConsoleNext]_console

-----------------------------------------------------------------------------
(* printReading: the serial line for a reading, in its hundredths.            *)
formatReading(available, v, unit) == Opt(available, [value |-> v, unit |-> unit])
printReading(s, settings) ==
  LET mask == sensorValidMask(s)
      F    == settings.temperature = 1
  IN  [temperature |-> formatReading(Bit(mask, 1),
         IF F THEN Rounded(18 * s.temperatureC + 320000, 100) ELSE Rounded(s.temperatureC, 10),
         IF F THEN "F" ELSE "C"),
       pressure |-> formatReading(Bit(mask, 4),
         Rounded(1000 * s.pressurePa, divisors[settings.pressure + 1]), pressureUnits[settings.pressure + 1]),
       gas |-> formatReading(Bit(mask, 8),
         <<s.gasOhms, IF settings.gas = 1 THEN 1000 ELSE 1>>, IF settings.gas = 1 THEN "kohm" ELSE "ohm"),
       vocUnit |-> IF settings.voc = 1 THEN "ppb" ELSE "ppm"]

(* Every reading reaches the operator: null exactly where sensorValidMask     *)
(* says so, else within half a step of the packet, and, in a v3 packet, shown *)
(* with the units and, up to that step, the values of the serial line.       *)
Near(shown, value, tolerance) == \A x \in shown, y \in value : Abs(x - y) <= tolerance
Same(shown, mask, bit) == (shown # {}) = Bit(mask, bit)
EnvironmentIsUnderstood(d, s) ==
  LET mask == sensorValidMask(s)
  IN  /\ Same(d.temperature_c, mask, 1) /\ Near({10 * t : t \in d.temperature_c}, {s.temperatureC}, 5)
      /\ Same(d.humidity_pct, mask, 2) /\ Near({10 * h : h \in d.humidity_pct}, {s.humidityPct}, 5)
      /\ Same(d.pressure_pa, mask, 4) /\ Near({10 * p : p \in d.pressure_pa}, {s.pressurePa}, 10)
      /\ d.gas_ohms = Opt(Bit(mask, 8), s.gasOhms)
AirQualityIsUnderstood(d, s) ==
  LET mask == sensorValidMask(s)
      bits == s.breathVocEquivalentPpm
  IN  /\ Same(d.iaq, mask, 16) /\ Near({100 * q : q \in d.iaq}, {s.iaq}, 50)
      /\ Same(d.co2_equivalent_ppm, mask, 32)
      /\ Near({10 * c : c \in d.co2_equivalent_ppm}, {s.co2EquivalentPpm}, 5)
      /\ Same(d.breath_voc_equivalent_ppm, mask, 64)
      /\ \A x \in d.breath_voc_equivalent_ppm :
           128 * x.exponent + x.fraction[1] = bits[1] % 32768 /\ x.fraction[2] = bits[2]
      /\ d.sample_uptime_s = s.sampleUptimeSeconds
      /\ d.air_quality_valid_mask = (sensorQualityByte(s) \div 16) % 8
      /\ d.temperature_humidity_compensated = s.temperatureHumidityCompensated
DisplaysAgree(d, p) ==
  LET step == 2 + 10000 \div divisors[active.pressure + 1]
  IN  /\ \A t \in p.temperature : d.temperature_unit = t.unit /\ Near(d.temperature, {10 * t.value}, 15)
      /\ \A q \in p.pressure : d.pressure_unit = q.unit /\ Near(d.pressure, {q.value}, step)
      /\ \A g \in p.gas : d.gas_resistance_unit = g.unit /\ d.gas_resistance = {g.value}
      /\ d.breath_voc_equivalent_unit = p.vocUnit
UplinksAreUnderstood ==
  /\ sent # {} => "error" \notin DOMAIN Decoder(uplink, 1)
  /\ \A item \in sent :
       item.type = "sensor" =>
         LET d == Decoder(uplink, 1)
             s == item.sample
         IN  /\ EnvironmentIsUnderstood(d, s)
             /\ item.version >= 2 => AirQualityIsUnderstood(d, s)
             /\ item.version = 3 => DisplaysAgree(d, printReading(s, active))

(* A request that a tool accepts is never refused as invalid; the tools make   *)
(* the same bytes of it; and when the node accepts a change of settings, its   *)
(* reply reads back to the operator as what was asked for, with every other    *)
(* setting as it was.  Bytes from elsewhere leave settings that are valid.    *)
Alias(v) == IF v \in {"hPa", "mb"} THEN "mbar" ELSE v
Shown(settings) == Configuration([i \in 1..10 |-> 0] \o
  <<settings.mode, settings.intervalMinutes, settings.temperature, settings.pressure, settings.gas,
    settings.voc, settings.serialLevel>>)
Asked(r, name) == \E i \in DOMAIN r.changes : r.changes[i][1] = name
ReadsBack(r, d) ==
  \A name \in DOMAIN d.settings :
    IF Asked(r, name)
    THEN \A i \in DOMAIN r.changes :
           r.changes[i][1] = name =>
             d.settings[name] = IF name = "pressure_unit" THEN Alias(r.changes[i][2]) ELSE r.changes[i][2]
    ELSE d.settings[name] = Shown(active)[name]
DownlinksAreUnderstood ==
  [][ /\ settingsValid(active')
      /\ active' # active /\ request' = {} => uplink' = <<>> \/ Decoder(uplink', 1).settings = Shown(active')
      /\ \A r \in request' :
           /\ Named(r) => encode(r) \in {{}, encodeDownlink(r)}
           /\ sent' # {} =>
                LET d == Decoder(uplink', 1)
                IN  /\ d.request_id = r.id /\ COMMANDS[d.command] = r.command /\ d.result # 1
                    /\ r.command = "set" /\ d.reply_type = 1 => ReadsBack(r, d) ]_console
=============================================================================
