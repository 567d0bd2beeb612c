------------------------------ MODULE MCDisplay ------------------------------
EXTENDS DisplayControl

MCPages == -2 .. Modes - 1
\* Short and long texts in either line, so that one page leaves something of another.
MCTextLength == [text \in MCPages \X {0, 1} |-> IF text[1] = 1 THEN 1 ELSE Cols - text[2] * (text[1] % 2)]
=============================================================================
