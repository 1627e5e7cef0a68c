------------------------------- MODULE Options -------------------------------
(***************************************************************************)
(* The command line and what becomes of it: ArgParser (arg_parser.cpp),    *)
(* the Configurator's defaults and conversions (configurator.cpp), and the *)
(* conversion of an address and a port (video_streamer.cpp,                *)
(* video_receiver.cpp).                                                    *)
(*                                                                         *)
(* A command line is a sequence of arguments, an argument a sequence of    *)
(* words, for an argument with a blank in it is cut there.  A word is      *)
(* "--key=value" or not, and a value is the ways there are to read it:     *)
(*   text    as a string;                                                  *)
(*   number  as a number: <<n>>, or <<>> for a text that is none;          *)
(*   quad    as a dotted address: the numbers up to where the reading      *)
(*           stops, where 0 stands for a text that is no number;           *)
(*   cut     whether it stops at a character other than the dot it needs.  *)
(***************************************************************************)
EXTENDS Integers, Sequences, SequencesExt, Pages

CONSTANTS
    Base,           \* values of a byte
    LittleEndian    \* whether the lower byte of a number comes first in memory

ASSUME OptionsAssumption == Base \in Nat \ {0} /\ LittleEndian \in BOOLEAN

Values == [text : STRING, number : Seq(Int), quad : Seq(Nat), cut : BOOLEAN]

Words == [marked : BOOLEAN, key : STRING, val : Values]

NoValue == [text |-> "", number |-> <<>>, quad |-> <<0>>, cut |-> FALSE]

(* ArgParser::parse; words shorter than five characters have no key or no  *)
(* value.                                                                  *)
IsOption(word) == word.marked /\ word.val # NoValue

(* _data[key] = val *)
Stored(data, word) ==
    [key \in DOMAIN data \cup {word.key} |-> IF key = word.key THEN word.val ELSE data[key]]

(* A parser that keeps the first value of an option. *)
StoreFirst(data, word) ==
    IF IsOption(word) /\ word.key \notin DOMAIN data THEN Stored(data, word) ELSE data

Store(data, word) == IF IsOption(word) THEN Stored(data, word) ELSE data

Parse(args) ==
    LET words == FlattenSeq(args)
        data[i \in 0..Len(words)] ==
            IF i = 0 THEN <<>> ELSE Store(data[i - 1], words[i])
    IN data[Len(words)]

(* operator>> leaves 0 behind when it finds no number. *)
NumberOf(val) == IF val.number = <<>> THEN 0 ELSE val.number[1]

DefaultIp == [NoValue EXCEPT !.text = "127.0.0.1", !.quad = <<127, 0, 0, 1>>]

(* The constructor of Configurator.  The names of the IPC objects and the  *)
(* two flags that save frames are constants: no option sets them.          *)
Configure(args) ==
    LET data == Parse(args)
        Given(key) == key \in DOMAIN data
        Text(key, default) == IF Given(key) THEN data[key].text ELSE default
        Number(key, default) == IF Given(key) THEN NumberOf(data[key]) ELSE default
        source == Text("source", "webcamera")
    IN [mode        |-> IF Text("mode", "client") = "server" THEN "server" ELSE "client",
        source      |-> IF source \in {"videofile", "ipc"} THEN source ELSE "webcamera",
        ip          |-> IF Given("ip") THEN data["ip"] ELSE DefaultIp,
        port        |-> Number("port", 53500),
        compression |-> Number("compression", 100),
        packet_size |-> Number("packet_size", 1280),
        video_path  |-> Text("video_path", "default.avi"),
        cam_id      |-> Number("cam_id", 0),
        debug       |-> Number("debug", 0) # 0,
        pause       |-> Number("package_pause", 100)]
---------------------------------------------------------------------------
(* convert_addr.  An address of 32 bits is the set of its ones, so that    *)
(* `out |= buf` is a union.                                                *)

Power[k \in 0..30] == IF k = 0 THEN 1 ELSE 2 * Power[k - 1]

(* An unsigned int, whose last bit is reached by halving: TLC's numbers    *)
(* end below that power.                                                   *)
Quotient(n, k) == IF k = 31 THEN (n \div Power[30]) \div 2 ELSE n \div Power[k]

BitsOf(n) == {k \in 0..31 : Quotient(n, k) % 2 = 1}

BadAddress == {-1}

(* Once the text has ended, buf keeps its last number and sep its last     *)
(* dot: "10.0.5" is 10.0.5.5.                                              *)
Octet(ip, i) == ip.quad[Least(i, Len(ip.quad))]

(* A loop that forgets to shift what it has. *)
AddressNoShift(ip) == UNION {BitsOf(Octet(ip, i)) : i \in 1..4}

(* Octets of 256 and more run into the octet before. *)
Address(ip) ==
    (UNION {{k + 8 * (4 - i) : k \in BitsOf(Octet(ip, i))} : i \in 1..4}) \cap (0..31)

(* With a single number sep has never been read, and what its memory holds *)
(* decides whether the address is refused.                                 *)
Conversions(ip) ==
    IF ip.cut THEN {BadAddress}
    ELSE IF Len(ip.quad) = 1 THEN {BadAddress, Address(ip)} ELSE {Address(ip)}
---------------------------------------------------------------------------
(* Ports.  A field of an address is the bytes it has in memory, and those  *)
(* travel as they are.                                                     *)

(* static_cast<unsigned short>: the two lower bytes of a size_t, in the    *)
(* order of the machine.                                                   *)
InMemory(n) ==
    LET low == n % Base
        high == (n \div Base) % Base
    IN IF LittleEndian THEN <<low, high>> ELSE <<high, low>>

(* htons, which neither end calls for a port. *)
NetworkOrder(n) == <<(n \div Base) % Base, n % Base>>

(* VideoReceiver::open_socket: the port a client binds that was given n. *)
ListeningPort(n) == InMemory(n)
===========================================================================
