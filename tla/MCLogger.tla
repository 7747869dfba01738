------------------------------ MODULE MCLogger ------------------------------
(* Statements whose lines end around the limits of the buffer: the newline, the
   suffix, the line number or the text itself may be the first that does not fit. *)
EXTENDS Logger

Of(level, pieces) == [level |-> level, pieces |-> pieces, file |-> <<3, 10>>, line |-> 99]

MCStatements ==
  {Of("INFO", <<Text(len)>>) : len \in {4021, 4050, 4064}}
    \cup {Of("ERROR", <<Number(n), Text(4060)>>) :
            n \in {0, 10, -2147483647 - 1}}
    \cup {Of("FATAL", <<Text(5000), Text(4033), Number(-32768)>>)}
=============================================================================
