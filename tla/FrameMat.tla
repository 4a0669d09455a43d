------------------------------ MODULE FrameMat ------------------------------
(***************************************************************************)
(* The way of a pixel from a CuboidFrame through ConvertArrayToMat         *)
(* (src/IterativeLevel0.cpp) and gloc::Mat (include/gloc/matrix.hpp) to    *)
(* the numpy array of python/gloc/gloripex.cpp: three index computations   *)
(* over one block of memory.  The conversion makes the width of the frame  *)
(* the height of the matrix.                                               *)
(***************************************************************************)
EXTENDS Integers

Mat(height, width) == [height |-> height, width |-> width]

\* (Mutant: the column is multiplied by the height.)
MatPosition_ByHeight(mat, i, j) == i + j * mat.height

\* Mat::operator()(i, j)
MatPosition(mat, i, j) == i + j * mat.width

MatOf(width, height) == Mat(width, height)

\* Which pixel of the frame ConvertArrayToMat leaves at a place of data_.
PixelAt(width, height) ==
  [p \in 0..(width * height - 1) |->
     LET written == {w \in (0..(width - 1)) \X (0..(height - 1)) :
                       MatPosition(MatOf(width, height), w[2], w[1]) = p}
     IN  {w[1] * height + w[2] : w \in written}]

\* The place of element (r, c) of the array py_get_next() makes.
NumpyPosition(mat, r, c) == r * mat.width + c
=============================================================================
