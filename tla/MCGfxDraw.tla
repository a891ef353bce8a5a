----------------------------- MODULE MCGfxDraw -----------------------------
EXTENDS GfxDraw
CONSTANTS black, red, blue
MCColors == {black, red, blue}
MCRamPixel == [a \in 0 .. 5 |-> IF a = 0 THEN red ELSE IF a < 3 THEN blue ELSE black]
MCExtents == 0 .. 3

MCCorners == -1 .. 3

\* The next steps depend on the pixels alone, and the invariant is seen.
PixelsAndType == <<framebuf, DrawTypeOK>>
=============================================================================
