------------------------------- MODULE MCLocation ------------------------------
(***************************************************************************)
(* Inputs for Location: every combination of a flag, a variable and a key  *)
(* for the bucket and for the endpoint, each naming something of its own,  *)
(* so that who was heard can be told from what is opened.                  *)
(***************************************************************************)
EXTENDS Location

CONSTANTS fb, yb, eb, fh, eh, yh

Written(host) == [scheme : {"none", "http", "https"}, host : {host}]
                    \cup [scheme : {"http", "https"}, host : {Empty}]

Flags == [bucket : {Unset, Empty, fb}, endpoint : {Unset, Empty, Blank} \cup Written(fh),
          region : {FALSE}]
            \cup [bucket : {Unset}, endpoint : {Unset}, region : {TRUE}]

Variables == [bucket : {Unset, Empty, eb}, endpoint : {Unset, Empty} \cup Written(eh)]

Blocks == [provider : {"aws", "s3"}, bucket : {Empty, yb}, endpoint : {Empty, Blank} \cup Written(yh),
           insecure : BOOLEAN]
            \cup [provider : Other, place : Place]
            \cup {NoStorage}

Cases == [flag : Flags, env : Variables, yaml : Blocks]

===============================================================================
