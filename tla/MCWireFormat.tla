---------------------------- MODULE MCWireFormat ------------------------------
(* Instance of WireFormat with bytes of two bits: int32 holds -128 .. 127.     *)
EXTENDS WireFormat

MCTypeNames == << <<1, 2>>, <<1, 3>> >>
MCSamples ==
  [k \in {Boolean, Int32, Int64, Double, Text} |->
     CASE k = Boolean -> <<0, 1>>
       [] k = Int32 -> <<-1, 127, 128, 0, -128>>
       [] k = Int64 -> <<-1, 255, -32768, 0, 32767>>
       [] k = Double -> <<0, 1, 5>>
       [] k = Text -> << <<>>, <<2>>, <<1, 3>> >>]
===============================================================================
