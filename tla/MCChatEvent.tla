---------------------------- MODULE MCChatEvent -----------------------------
(* Instances of ChatEvent for TLC.  The texts are those that could be      *)
(* taken for something else: a line feed and the backslash and n it is     *)
(* escaped to, a quote, and tags of which two would read alike unescaped.  *)
EXTENDS ChatEvent

MCContents == {<<QUOTE>>, <<LF>>, <<BSLASH, 110>>}

Joint == <<QUOTE, COMMA, QUOTE>>
MCTagLists == { <<>>, << <<>> >>, << << <<>>, <<>> >> >>,
                << << <<>> >>, << <<>> >> >>, << <<Joint>> >> }
=============================================================================
