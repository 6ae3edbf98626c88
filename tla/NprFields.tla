------------------------------ MODULE NprFields ------------------------------
(***************************************************************************)
(* The conversions of a filter's fields (class Configuration of            *)
(* src/ixp/npr), from the texts and the wildcards of the user to the key   *)
(* and the mask of a TCAM entry and the outputs of its result.  A text is  *)
(* a member of a small set, a list of numbers a sequence of such texts;    *)
(* the flags that are set and the flags that are compared are sets of      *)
(* names instead of bits.  Invalid stands for a thrown exception.          *)
(***************************************************************************)
EXTENDS Integers, Sequences

Invalid == -1
Wildcard == 99      \* WILDCARD_VALUE
UseRoute == 7       \* FILTER_USE_ROUTE
MaxOut == 4         \* highest port and plugin

(* The texts that are numbers; any other text is not.                      *)
Numerals == {"0", "4", "5", "17"}
conv_str_to_uint(s) ==
  IF s \notin Numerals THEN Invalid
  ELSE CASE s = "0" -> 0 [] s = "4" -> 4 [] s = "5" -> 5 [] s = "17" -> 17

(* Upper case is accepted for ICMP and IGMP only.                          *)
get_proto(s) ==
  CASE s \in {"icmp", "ICMP"} -> 1
    [] s \in {"igmp", "IGMP"} -> 2
    [] s = "tcp" -> 6
    [] s = "udp" -> 17
    [] s = "*" -> Wildcard
    [] OTHER -> conv_str_to_uint(s)

(* Each flag is 0, 1 or a wildcard; the key holds the flags that are 1,    *)
(* the mask the flags that are compared.                                   *)
FlagsValid(f) == \A x \in DOMAIN f : f[x] \in {0, 1, Wildcard}
Key(f) == {x \in DOMAIN f : f[x] = 1}
Mask(f) == {x \in DOMAIN f : f[x] \in {0, 1}}

get_tcpflags(f) == Key(f)
get_tcpflags_mask(f) == Mask(f)
get_exceptions(f) == Key(f)
get_exceptions_mask(f) == Mask(f)

(* The selection text must agree with the kind of the filter.              *)
get_pps(s, multicast) ==
  CASE s = "plugin(unicast)" /\ ~multicast -> 1
    [] s = "port(unicast)" /\ ~multicast -> 0
    [] s = "ports and plugins (multicast)" /\ multicast -> 0
    [] s = "plugins(multicast)" /\ multicast -> 1
    [] OTHER -> Invalid

Output(texts) ==
  LET v == conv_str_to_uint(texts[1])
  IN IF Len(texts) = 1 /\ v <= MaxOut THEN v ELSE Invalid

get_output_port(texts) ==
  CASE texts = <<>> -> 0
    [] texts = <<"use route">> -> UseRoute
    [] OTHER -> Output(texts)

get_output_plugin(texts) == IF texts = <<>> THEN 0 ELSE Output(texts)

(* Multicast: every number of both lists is at most 4.                     *)
get_outputs(ports, plugins) ==
  LET ok(l) == \A i \in DOMAIN l : conv_str_to_uint(l[i]) \in 0..MaxOut
  IN IF ok(ports) /\ ok(plugins) THEN 0 ELSE Invalid

(* The part of add_filter_req::handle up to the first exception, and the   *)
(* output ports it may go on with: for a multicast filter the variable is  *)
(* never assigned.                                                         *)
Converts(f) ==
  /\ get_proto(f.proto) # Invalid
  /\ FlagsValid(f.tcp) /\ FlagsValid(f.exceptions)
  /\ get_pps(f.pps, f.multicast) # Invalid
  /\ IF f.multicast THEN get_outputs(f.ports, f.plugins) # Invalid
     ELSE get_output_port(f.ports) # Invalid /\ get_output_plugin(f.plugins) # Invalid

OutputPorts(f) ==
  IF f.multicast THEN {0, UseRoute} ELSE {get_output_port(f.ports)}

(* delete_filter_req converts the fields of the key only.                  *)
ConvertsKey(f) ==
  get_proto(f.proto) # Invalid /\ FlagsValid(f.tcp) /\ FlagsValid(f.exceptions)
=============================================================================
