--------------------------------- MODULE MCText --------------------------------
EXTENDS Text

MCBytes == {\h7F, \h80, \h90, \hA0, \hC1, \hC2, \hE0, \hED, \hF0, \hF4}
MCUnits16 == {\h41, \h7FF, \h800, \hD800, \hDBFF, \hDC00, \hDFFF, \hFFFF}
MCUnits32 == {\h7F, \h80, \h7FF, \h800, \hD800, \hFFFF, \h10000, \h10FFFF, \h110000}
================================================================================
