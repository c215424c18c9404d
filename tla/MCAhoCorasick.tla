---------------------------- MODULE MCAhoCorasick ----------------------------
(* Three bytes; every dictionary of two patterns of up to three bytes and   *)
(* some of three and more, over every subject of up to four bytes.          *)
EXTENDS AhoCorasick

MCByte == 1..3
Words(n) == UNION {[1..k -> 1..2] : k \in 1..n}
MCDictionaries == {<<p, q>> : p, q \in Words(3)}
    \union {<< <<1,2,3>>, <<2>> >>, << <<1,2,3,1>>, <<2,3>>, <<3>> >>,
            << <<1,1,2>>, <<1,2,3>>, <<2,3,1>>, <<3,3>> >>,
            << <<1,1>>, <<1,2>>, <<1,3,1>>, <<1,3,2>>, <<1,3,3>> >>,
            << <<3,2,1>>, <<2,1,1>>, <<3,2,1>>, <<1,1>> >>, <<>> }
MCSubjects == UNION {[1..k -> MCByte] : k \in 0..4}
===============================================================================
