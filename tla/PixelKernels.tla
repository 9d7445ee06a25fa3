---------------------------- MODULE PixelKernels ----------------------------
(* The kernels on images of 02-image-embed, 05-video and 11-optical-flow,    *)
(* one thread per pixel, against the sequential code kept beside them.       *)
EXTENDS KernelGrids

CONSTANT ImageSizes   \* pairs (width, height)
ASSUME SizesAssumption == ImageSizes \subseteq (Nat \ {0}) \X (Nat \ {0})

Grid2(w, h) == Guarded2(w, h, TileX, TileY)
At(w, x, y) == y * w + x

(* 02-image-embed: bilinear resize.  floor((x + 0.5) * src / dst - 0.5), in  *)
(* integers, and its right neighbour, both clamped to the image.             *)
Tap(x, src, dst, d) ==
    LET x0 == Clamp(((2 * x + 1) * src - dst) \div (2 * dst), 0, src - 1)
    IN IF d = 0 THEN x0 ELSE Clamp(x0 + 1, 0, src - 1)
ResizeTerms(sw, sh, dw, dh, threads) ==
    {Term(<<p[1], p[2]>>, c * (dw * dh) + At(dw, p[1], p[2]),
          3 * At(sw, Tap(p[1], sw, dw, d[1]), Tap(p[2], sh, dh, d[2])) + c, d) :
        p \in threads, c \in 0..2, d \in (0..1) \X (0..1)}
k_resize_normalize_chw(sw, sh, dw, dh) == ResizeTerms(sw, sh, dw, dh, Grid2(dw, dh))
preprocess_cpu(sw, sh, dw, dh) ==
    {<<t[2], t[3], t[4]>> : t \in ResizeTerms(sw, sh, dw, dh, Pixels(dw, dh))}

(* 05-video.  NV12 keeps a plane of luma and, at half resolution, pairs of   *)
(* chroma bytes; frames have even sides.                                     *)
Nv12Terms(w, h, threads) ==
    UNION {{Term(p, 3 * At(w, p[1], p[2]) + c, i, 0) :
                c \in 0..2,
                i \in LET uv == w * h + (p[2] \div 2) * w + (p[1] \div 2) * 2
                      IN {At(w, p[1], p[2]), uv, uv + 1}} : p \in threads}
k_nv12_to_rgb(w, h) == Nv12Terms(w, h, Grid2(w, h))
nv12_to_rgb_cpu(w, h) == {<<t[2], t[3], t[4]>> : t \in Nv12Terms(w, h, Pixels(w, h))}
k_extract_y(n) == OneThreadEach(n, Block)
k_motion_history(n) == OneThreadEach(n, Block)

Window(r) == (-r..r) \X (-r..r)
StencilTerms(threads, r, w, sw, sh, scale) ==
    {Term(p, At(w, p[1], p[2]),
          At(sw, Clamp(scale * p[1] + d[1], 0, sw - 1), Clamp(scale * p[2] + d[2], 0, sh - 1)), d) :
        p \in threads, d \in Window(r)}
k_bilateral_clamped(w, h, r) == StencilTerms(Grid2(w, h), r, w, w, h, 1)
\* The texture unit clamps coordinates (cudaAddressModeClamp).
k_bilateral_texture(w, h, r) == StencilTerms(Grid2(w, h), r, w, w, h, 1)
bilateral_cpu(w, h, r) ==
    {<<t[2], t[3], t[4]>> : t \in StencilTerms(Pixels(w, h), r, w, w, h, 1)}

(* 11-optical-flow.  Sobel and Harris write 0 on the border, where their     *)
(* window would leave the image; a term with tag ZeroStore is that store.     *)
ZeroStore == <<9, 9>>
BorderedTerms(threads, w, h, border, window) ==
    UNION {IF p[1] < border \/ p[2] < border \/ p[1] >= w - border \/ p[2] >= h - border
           THEN {Term(p, At(w, p[1], p[2]), At(w, p[1], p[2]), ZeroStore)}
           ELSE {Term(p, At(w, p[1], p[2]), At(w, p[1] + d[1], p[2] + d[2]), d) : d \in window} :
                p \in threads}
Ring == Window(1) \ {<<0, 0>>}
k_sobel(w, h) == BorderedTerms(Grid2(w, h), w, h, 1, Ring)
k_harris_response(w, h) == BorderedTerms(Grid2(w, h), w, h, 2, Window(1))
\* Zeroed arrays, then loops over the interior.
BorderedLoop(w, h, border, window) ==
    LET inside == {p \in Pixels(w, h) : /\ p[1] \in border..(w - border - 1)
                                        /\ p[2] \in border..(h - border - 1)}
    IN {<<At(w, p[1], p[2]), At(w, p[1], p[2]), ZeroStore>> : p \in Pixels(w, h) \ inside}
       \cup {<<At(w, p[1], p[2]), At(w, p[1] + d[1], p[2] + d[2]), d>> :
                p \in inside, d \in window}
harris_response_cpu(w, h) ==
    <<BorderedLoop(w, h, 1, Ring), BorderedLoop(w, h, 2, Window(1))>>

Half(x) == IF x \div 2 > 1 THEN x \div 2 ELSE 1
k_downsample(w, h) == StencilTerms(Grid2(Half(w), Half(h)), 2, Half(w), w, h, 2)
downsample_cpu(w, h) ==
    {<<t[2], t[3], t[4]>> : t \in StencilTerms(Pixels(Half(w), Half(h)), 2, Half(w), w, h, 2)}
k_scale_points(n) == OneThreadEach(n, Block)

\* track() does not keep the sizes of the pyramid's levels: it shifts the frame's.
\* The levels stop before a side gets shorter than the smallest one allowed.
LevelSizes(w, h, levels, smallest) ==
    LET extent[l \in Upto(levels)] ==
            IF l = 0 THEN <<w, h>> ELSE <<Half(extent[l - 1][1]), Half(extent[l - 1][2])>>
        built == {l \in Upto(levels) : \A k \in 1..l : extent[k][1] >= smallest /\ extent[k][2] >= smallest}
    IN {<<l, At(extent[l][1], 0, extent[l][2]), 0>> : l \in built}
k_klt_level(w, h, levels, smallest) ==
    {Term(t[1], t[1], (w \div (2 ^ t[1])) * (h \div (2 ^ t[1])), 0) :
        t \in LevelSizes(w, h, levels, smallest)}

PixelLaunches ==
    UNION {LET w == s[1]  h == s[2]  n == s[1] * s[2] IN
        {LaunchOf("k_nv12_to_rgb", k_nv12_to_rgb(2 * w, 2 * h), nv12_to_rgb_cpu(2 * w, 2 * h), 12 * n, 6 * n),
         LaunchOf("k_extract_y", k_extract_y(n), Elementwise(n), n, n),
         LaunchOf("k_motion_history", k_motion_history(n), Elementwise(n), n, n),
         LaunchOf("k_bilateral_clamped", k_bilateral_clamped(w, h, 1), bilateral_cpu(w, h, 1), n, n),
         LaunchOf("k_bilateral_texture", k_bilateral_texture(w, h, 2), bilateral_cpu(w, h, 2), n, n),
         LaunchOf("k_sobel", k_sobel(w, h), harris_response_cpu(w, h)[1], n, n),
         LaunchOf("k_harris_response", k_harris_response(w, h), harris_response_cpu(w, h)[2], n, n),
         LaunchOf("k_downsample", k_downsample(w, h), downsample_cpu(w, h), n, n),
         LaunchOf("k_scale_points", k_scale_points(n), Elementwise(n), n, n),
         LaunchOf("k_klt_level", k_klt_level(4 * w, 4 * h, 4, 2), LevelSizes(4 * w, 4 * h, 4, 2), 4, 17 * n)}
        \cup {LaunchOf("k_resize_normalize_chw", k_resize_normalize_chw(w, h, d[1], d[2]),
                       preprocess_cpu(w, h, d[1], d[2]), 3 * d[1] * d[2], 3 * n) : d \in ImageSizes} :
        s \in ImageSizes}
PixelSpec == GridInit /\ [][GridNext(PixelLaunches)]_gridVars
=============================================================================
