---------------------------- MODULE MCDeviceUse ----------------------------
(***************************************************************************)
(* An instance of DeviceUse: what programs ask of the devices here, each   *)
(* call with values that lie at a boundary or set and clear its bits.      *)
(***************************************************************************)
EXTENDS DeviceUse

MCDioAsked ==
  {DioLib!Request("OutByte", p, v) : p \in {0, 1}, v \in {{0, 3}, {3}}}
  \cup {DioLib!Multi({1}, {0, 3})}
  \cup {DioLib!Request("SetDigitalFilter", 0, v) : v \in {{0, 2, 5, 6}, {}}}
  \cup {DioLib!Request("SetInternalPowerSupply", 0, v) : v \in {{0}, {}}}
  \cup {DioLib!Request("NotifyInterrupt", b, v) : b \in {0, 7}, v \in {{0}, {}}}

MCCntAsked ==
  {CntLib!Request("SetOperationMode", 1, m) : m \in {1, 4}}
  \cup {CntLib!Request(c, 1, v) : c \in {"SetZLogic", "SetCountDirection"}, v \in {0, 1}}
  \cup {CntLib!Request("SelectChannelSignal", ch, v) : ch \in {0, 1}, v \in {0, 1}}
  \cup {CntLib!Request(c, 1, 3) : c \in {"SetZMode", "SetDigitalFilter"}}
  \cup {CntLib!Request(c, 0, 127) : c \in {"SetPulseWidth", "SET_INTERRUPT_MASK"}}
  \cup {CntLib!Request("SET_TIMER_DATA", 0, 70000), CntLib!Request("RESET_SENCE", 0, 3)}
  \cup {CntLib!Request(c, 1, 70000) : c \in {"NotifyCountUp", "Preset"}}
  \cup {CntLib!Request("GetCountDirection", 1, 1)}
  \cup {CntLib!Request("reset_flag_always_on", 0, v) : v \in {0, 1}}
  \cup {CntLib!Many(c, {ch}) : c \in {"StartCount", "StopCount"}, ch \in {0, 1}}
  \cup {CntLib!Many("ReadCount", {0, 1})}

MCAioAsked ==
  {AioLib!Request(c, s, v) : c \in {"Channels", "Times"}, s \in {"AI", "AO"}, v \in {<<1>>, <<4>>}}
  \cup {AioLib!Request("Clock", s, v) : s \in {"AI", "AO"}, v \in {<<1000>>, <<25 * 70000>>}}
  \cup {AioLib!Request("Route", "ECU", v) : v \in {<<0, 0>>, <<36, 4>>}}
  \cup {AioLib!Request("Calibration", s, v) : s \in {"AI", "AO"}, v \in {<<0, 7, 200>>, <<1, 0, 255>>}}
  \cup {AioLib!Request("Single", s, v) : s \in {"AI", "AO"}, v \in {<<1>>, <<3>>}}
  \cup {AioLib!Request("DirectClock", s, <<1000>>) : s \in {"AI", "AO"}}
  \cup {AioLib!Request("DirectGate", s, o) : s \in {"AI", "AO"}, o \in {<<0>>, <<1>>}}
  \cup {AioLib!Request(c, "ECU", <<0>>) : c \in {"Init", "Exit", "Outp", "EcuOutp", "CommandOutp"}}

MCSsiAsked ==
  {SsiLib!Request("SetChannel", 1, how, <<>>) : how \in {<<"w3", "PT">>, <<"w3", "JPT">>, <<"w4", "JPT">>}}
  \cup {SsiLib!Request("SetOffset", 1, <<"w3">>, <<-128>>), SsiLib!Request("SetOffset", 1, <<"w4">>, <<127>>)}
  \cup {SsiLib!Request("GetOffset", 1, <<w>>, <<>>) : w \in {"w3", "w4"}}
  \cup {SsiLib!Request(c, 0, <<>>, <<-1>>) : c \in {"SetGain", "WriteGain"}}
  \cup {SsiLib!Request("SetGainToUShort", 0, <<>>, <<30000>>)}
  \cup {SsiLib!Request("WriteOffset", 0, <<>>, <<-1, 100>>), SsiLib!Request("WriteOffset", 3, <<>>, <<7, -128>>)}
  \cup {SsiLib!Request("Clear", 0, <<from>>, <<>>) : from \in {"RAM", "ROM"}}
  \cup {SsiLib!Request(c, 1, <<>>, <<>>) : c \in {"Single", "GetStatus", "Init", "CommandOutp"}}
  \cup {SsiLib!Request("DirectCommandOutput", 3, <<>>, <<255>>)}
=============================================================================
