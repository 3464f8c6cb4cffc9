------------------------------ MODULE MCReadMarks ------------------------------
\* Two groups that share two articles, posted to them in opposite orders.
EXTENDS ReadMarks

CONSTANTS alt, comp

MCFirst == [g \in {alt, comp} |-> IF g = alt THEN 1 ELSE 2]
MCXrefs == {{<<alt, 2>>, <<comp, 3>>},
            {<<alt, 3>>, <<comp, 2>>},
            {<<alt, 4>>, <<comp, 4>>}}
MCLines == {[g \in {alt, comp} |-> IF g = h THEN <<>> ELSE <<Span(1, 1), Single(3)>>] :
              h \in {alt, comp}}
===============================================================================
