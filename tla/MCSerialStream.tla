----------------------------- MODULE MCSerialStream -----------------------------
\* An output of one byte among longer ones: written at once, or in up to three parts.
EXTENDS SerialStream

MCOutputLength == <<3, 1, 2>>
=============================================================================
