--------------------------- MODULE MCFormattedIO ---------------------------
(***************************************************************************)
(* Templates, arguments, sizes and files of the checked instance.          *)
(***************************************************************************)
EXTENDS FormattedIO

x == Lit(120)
sp == Lit(Space)
nl == Lit(10)
d == Conv("d", FALSE, 0)
s == Conv("s", FALSE, 0)
c == Conv("c", FALSE, 0)

MCPrintTemplates ==
  {<<d, nl>>, <<x, d, sp, d, nl>>, <<s, sp, d>>, <<d, x, s, nl>>, <<s>>, <<c, d>>, <<c, c>>,
   <<Conv("d", TRUE, 0), nl>>, <<Conv("d", FALSE, 2), Conv("s", TRUE, 0)>>,
   <<Conv("%", TRUE, 0), d>>, <<Conv("p", FALSE, 0)>>, <<x, nl>>, <<x, Conv("bad", FALSE, 0)>>}

MCArguments ==
  {<<>>, <<Matrix(<<1, 2, 3>>)>>, <<Matrix(<<1, 2>>), Matrix(<<13>>)>>, <<Matrix(<<>>)>>,
   <<Str(<<97, 98>>)>>, <<Str(<<97>>), Str(<<98>>)>>, <<Str(<<97>>), Matrix(<<1, 2>>), Str(<<98>>), Matrix(<<3>>)>>,
   <<Matrix(<<2>>), Str(<<>>), Str(<<97, 98>>)>>, <<Matrix(<<1>>), Matrix(<<>>), Str(<<97>>)>>,
   <<Matrix(<<2, 5, Half, 7>>)>>, <<Str(<<97, 98>>), Matrix(<<3, 4>>), Matrix(<<Half, 1>>)>>}

MCScanTemplates ==
  {<<d>>, <<sp, d>>, <<d, x>>, <<x, d, d>>, <<d, Conv("d", TRUE, 0)>>, <<Conv("d", FALSE, 1)>>,
   <<s>>, <<c>>, <<s, d>>, <<Conv("s", FALSE, 2)>>, <<Conv("s", FALSE, 2), d>>, <<c, Conv("c", TRUE, 0)>>,
   <<x>>, <<d, Conv("p", FALSE, 0)>>, <<Conv("bad", FALSE, 0)>>}

MCSizes == {<<Inf>>, <<2>>, <<2, Inf>>, <<2, 2>>, <<3, 1>>, <<Inf, 2>>, <<0>>, <<-1>>, <<1, 2, 3>>}

MCFiles ==
  {<<>>, <<49, 32, 50, 32, 51, 52, 32, 53, 32, 54, 10>>, <<120, 49, 50, 120, 51>>,
   <<32, 97, 98, 32, 99, 32, 49>>, <<49, 32, 97, 98, 99, 32, 50, 32, 97>>}
=============================================================================
