----------------------------- MODULE MC_Graphics -----------------------------
EXTENDS Graphics

\* the 640x480, 16 bits per pixel screen square.c was written for
MC_XRes == 640
MC_YRes == 480
MC_LineLength == 1280
MC_PageSize == 4096
\* far enough for the square to leave the screen on every side
MC_MaxTravel == 340
\* iso_font.h is not in the repository: every glyph driver.c draws is a
\* full 8x16 block, the most pixels any font can store for it
MC_Font == [ch \in UNION {ToSet(Driver[i].s) : i \in {j \in DOMAIN Driver : Driver[j].op = "text"}}
              |-> [i \in 0 .. 15 |-> 255]]
\* both demos
MC_Programs == {"square", "driver"}
=============================================================================
