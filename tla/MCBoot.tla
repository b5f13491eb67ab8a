-------------------------------- MODULE MCBoot --------------------------------
EXTENDS Boot

Bar(a, l, s) == [kind |-> "bar", size |-> s, value |-> [addr |-> a, low |-> l]]
High(a, l) == [kind |-> "high", size |-> 1, value |-> [addr |-> a, low |-> l]]

(* One register: none, I/O, memory of two sizes, memory not set up.         *)
Single == {<<r>> : r \in {NoRegister, Bar(1, 1, 1), Bar(2, 0, 2), Bar(4, 0, 4), Bar(0, 0, 2)}}

(* Two registers: 64 bits of memory below 4 GB, not set up, too large, or   *)
(* above 4 GB with a high half that looks like an I/O BAR, a memory BAR, or *)
(* a 64-bit one.                                                           *)
Double ==
    {<<Bar(6, 4, 2), High(0, 0)>>, <<Bar(0, 4, 4), High(0, 0)>>, <<Bar(0, 4, 8), High(0, 0)>>,
     <<Bar(6, 4, 2), High(0, 1)>>, <<Bar(6, 4, 2), High(1, 0)>>, <<Bar(6, 4, 2), High(0, 4)>>}

Padded(s) == [n \in 0 .. NumBars |-> IF n < Len(s) THEN s[n + 1] ELSE NoRegister]

Layouts == {Padded(s \o t) : s \in Double \cup Single, t \in Double \cup Single}

Function(n, h, c, b) == [network |-> n, header |-> h, line |-> 11, command |-> c, bars |-> b]

(* Cards with every layout and with every command; another function; a      *)
(* bridge, whose third register holds bus numbers and is no BAR.            *)
SomeFunctions ==
    {Function(TRUE, 0, {}, b) : b \in Layouts}
        \cup {Function(TRUE, 0, c, Padded(<<Bar(2, 0, 2)>>)) : c \in SUBSET {1, 2}}
        \cup {Function(FALSE, 1, {}, Padded(<<Bar(2, 0, 2), Bar(1, 1, 1), High(3, 0)>>))}
=============================================================================
