----------------------------- MODULE MC_Server -----------------------------
(* Command lines for the server.  The interval of the traffic is one tick  *)
(* of the clock and an int holds eight values, so an age of four ticks and *)
(* more looks negative; a byte holds four values and a port two bytes.     *)
EXTENDS ServerLife

Text(t) == [NoValue EXCEPT !.text = t]
Num(n) == [NoValue EXCEPT !.number = <<n>>]
Quad(q) == [NoValue EXCEPT !.text = "ip", !.quad = q]
CutQuad(q) == [Quad(q) EXCEPT !.cut = TRUE]

Opt(key, val) == <<[marked |-> TRUE, key |-> key, val |-> val]>>
Junk == [marked |-> FALSE, key |-> "", val |-> NoValue]
Program == <<Junk>>

Server == Opt("mode", Text("server"))
File == Opt("source", Text("videofile"))
Shared == Opt("source", Text("ipc"))

MCCommandLines == {
    \* a file, the last of two values of an option, a port too large, debug output
    <<Program, Server, File, Opt("debug", Num(1)), Opt("port", Num(3)), Opt("port", Num(25)),
      Opt("ip", Quad(<<10, 0, 255, 1>>)), Opt("video_path", Text("a.avi"))>>,
    \* a camera, compressed, values that are no numbers or missing, an unknown
    \* source, small packets, an address of three numbers, one too large
    <<Program, Server, Opt("source", Text("tape")), Opt("cam_id", Text("front")),
      Opt("compression", Num(80)), Opt("package_pause", NoValue), Opt("packet_size", Num(1)),
      Opt("ip", Quad(<<10, 300, 5>>))>>,
    \* shared memory, debug output, a name for an address, and a value with a
    \* blank, cut to its first word
    <<Program, Shared, Server, Opt("debug", Num(1)), Opt("ip", Quad(<<0>>)),
      <<Opt("video_path", Text("my"))[1], Junk>>>>,
    \* an address with a wrong separator
    <<Program, Server, Opt("ip", CutQuad(<<10, 0>>))>>,
    \* a mode that does not exist, and nothing at all
    <<Program, Opt("mode", Text("sender"))>>,
    <<Program>> }

MCFrameSizes == {2}
===========================================================================
